---- MODULE Spec2Model ----
(***************************************************************************)
(* NeoXBridge AI: the intent router, the transaction flows and the         *)
(* security verdicts of the two agents, as state machines.                 *)
(*                                                                         *)
(* A Python str is modelled as a sequence of one-character strings, so     *)
(* that lower-casing, substring tests and the regular expressions of the   *)
(* router are computed character by character as the code computes them.   *)
(***************************************************************************)
EXTENDS Integers, Sequences, FiniteSets, TLC

\* ------------------------------------------------------------------------
\* Characters and strings
\* ------------------------------------------------------------------------

\* Python's None (a value no str equals: every str is a sequence of one-character strings)
None == <<"None">>

LowerLetters == {"a", "b", "c", "d", "e", "f", "g", "h", "i", "j", "k", "l", "m", "n", "o", "p", "q", "r", "s", "t", "u", "v", "w", "x", "y", "z"}

UpperLetters == {"A", "B", "C", "D", "E", "F", "G", "H", "I", "J", "K", "L", "M", "N", "O", "P", "Q", "R", "S", "T", "U", "V", "W", "X", "Y", "Z"}

Digits == {"0", "1", "2", "3", "4", "5", "6", "7", "8", "9"}

\* [A-Za-z0-9]
Alnum == LowerLetters \cup UpperLetters \cup Digits

\* \w of the re module (ASCII part)
WordChars == Alnum \cup {"_"}

\* \s of the re module
Whitespace == {" ", "\t", "\n", "\r"}

\* [a-fA-F0-9]
HexChars == Digits \cup {"a", "b", "c", "d", "e", "f", "A", "B", "C", "D", "E", "F"}

\* [1-9A-HJ-NP-Za-km-z]
Base58Chars == {"1", "2", "3", "4", "5", "6", "7", "8", "9", "A", "B", "C", "D", "E", "F", "G", "H", "J", "K", "L", "M", "N", "P", "Q", "R", "S", "T", "U", "V", "W", "X", "Y", "Z", "a", "b", "c", "d", "e", "f", "g", "h", "i", "j", "k", "m", "n", "o", "p", "q", "r", "s", "t", "u", "v", "w", "x", "y", "z"}

ToLowerMap ==
    "A" :> "a" @@ "B" :> "b" @@ "C" :> "c" @@ "D" :> "d" @@ "E" :> "e" @@ "F" :> "f" @@ "G" :> "g" @@ "H" :> "h" @@ "I" :> "i" @@ "J" :> "j" @@ "K" :> "k" @@ "L" :> "l" @@ "M" :> "m"
    @@ "N" :> "n" @@ "O" :> "o" @@ "P" :> "p" @@ "Q" :> "q" @@ "R" :> "r" @@ "S" :> "s" @@ "T" :> "t" @@ "U" :> "u" @@ "V" :> "v" @@ "W" :> "w" @@ "X" :> "x" @@ "Y" :> "y" @@ "Z" :> "z"

ToUpperMap ==
    "a" :> "A" @@ "b" :> "B" @@ "c" :> "C" @@ "d" :> "D" @@ "e" :> "E" @@ "f" :> "F" @@ "g" :> "G" @@ "h" :> "H" @@ "i" :> "I" @@ "j" :> "J" @@ "k" :> "K" @@ "l" :> "L" @@ "m" :> "M"
    @@ "n" :> "N" @@ "o" :> "O" @@ "p" :> "P" @@ "q" :> "Q" @@ "r" :> "R" @@ "s" :> "S" @@ "t" :> "T" @@ "u" :> "U" @@ "v" :> "V" @@ "w" :> "W" @@ "x" :> "X" @@ "y" :> "Y" @@ "z" :> "Z"

DigitValue ==
    "0" :> 0 @@ "1" :> 1 @@ "2" :> 2 @@ "3" :> 3 @@ "4" :> 4 @@ "5" :> 5 @@ "6" :> 6 @@ "7" :> 7 @@ "8" :> 8 @@ "9" :> 9


LowerChar(c) == IF c \in DOMAIN ToLowerMap THEN ToLowerMap[c] ELSE c

UpperChar(c) == IF c \in DOMAIN ToUpperMap THEN ToUpperMap[c] ELSE c

\* str.lower()
str_lower(s) == [i \in 1..Len(s) |-> LowerChar(s[i])]

\* str.upper()
str_upper(s) == [i \in 1..Len(s) |-> UpperChar(s[i])]

\* p occurs in s at index i (1-based)
StartsAt(s, i, p) ==
    /\ i >= 1
    /\ i + Len(p) - 1 <= Len(s)
    /\ \A j \in 1..Len(p) : s[i + j - 1] = p[j]

\* the Python test `p in s` on two str
Contains(s, p) == \E i \in 1..(Len(s) - Len(p) + 1) : StartsAt(s, i, p)

\* all() written for any()
AnyIn_all(s, patterns) == \A k \in 1..Len(patterns) : Contains(s, patterns[k])

\* any(pattern in s for pattern in patterns)
AnyIn(s, patterns) == \E k \in 1..Len(patterns) : Contains(s, patterns[k])

\* the index after the longest run of characters of class C that starts at i
RunEnd(s, i, C) ==
    LET stops == {k \in i..Len(s) : s[k] \notin C}
    IN  IF stops = {} THEN Len(s) + 1
        ELSE CHOOSE k \in stops : \A l \in stops : k <= l

\* exactly n characters of class C at i..i+n-1
ClassRun(s, i, n, C) ==
    /\ i >= 1
    /\ i + n - 1 <= Len(s)
    /\ \A k \in i..(i + n - 1) : s[k] \in C

\* \b of the re module holds between index i-1 and index i
WordBoundary(s, i) ==
    LET before == i > 1 /\ i - 1 <= Len(s) /\ s[i - 1] \in WordChars
        after  == i >= 1 /\ i <= Len(s) /\ s[i] \in WordChars
    IN  before # after

Min(S) == CHOOSE x \in S : \A y \in S : x <= y

\* the value of a run of decimal digits
RECURSIVE DecimalValue(_)
DecimalValue(ds) ==
    IF Len(ds) = 0 THEN 0
    ELSE 10 * DecimalValue(SubSeq(ds, 1, Len(ds) - 1)) + DigitValue[ds[Len(ds)]]

\* float() of the text \d+(\.\d+)? ; a float is held in hundredths
\* (the amounts of the model have at most two decimals)
ParseFloat(t) ==
    LET e    == RunEnd(t, 1, Digits)
        ip   == DecimalValue(SubSeq(t, 1, e - 1))
        frac == IF e > Len(t) THEN << >> ELSE SubSeq(t, e + 1, Len(t))
        f1   == IF Len(frac) >= 1 THEN DigitValue[frac[1]] ELSE 0
        f2   == IF Len(frac) >= 2 THEN DigitValue[frac[2]] ELSE 0
    IN  100 * ip + 10 * f1 + f2

\* " ".join(words)
RECURSIVE JoinWords(_)
JoinWords(words) ==
    IF Len(words) = 0 THEN << >>
    ELSE IF Len(words) = 1 THEN words[1]
    ELSE words[1] \o <<" ">> \o JoinWords(Tail(words))

\* ------------------------------------------------------------------------
\* NeoXBridgeComprehensiveAgent.parse_intent
\* ------------------------------------------------------------------------

wallet_patterns == <<<<"l", "o", "a", "d", " ", "w", "a", "l", "l", "e", "t">>, <<"i", "m", "p", "o", "r", "t", " ", "w", "a", "l", "l", "e", "t">>, <<"w", "a", "l", "l", "e", "t", " ", "s", "t", "a", "t", "u", "s">>,
                     <<"m", "y", " ", "a", "d", "d", "r", "e", "s", "s">>, <<"p", "r", "i", "v", "a", "t", "e", " ", "k", "e", "y">>>>

balance_patterns == <<<<"b", "a", "l", "a", "n", "c", "e">>, <<"c", "h", "e", "c", "k", " ", "b", "a", "l", "a", "n", "c", "e">>, <<"m", "y", " ", "b", "a", "l", "a", "n", "c", "e">>, <<"s", "h", "o", "w", " ", "b", "a", "l", "a", "n", "c", "e">>>>

security_patterns == <<<<"s", "e", "c", "u", "r", "i", "t", "y">>, <<"s", "a", "f", "e">>, <<"m", "a", "l", "i", "c", "i", "o", "u", "s">>, <<"c", "h", "e", "c", "k", " ", "a", "d", "d", "r", "e", "s", "s">>, <<"a", "n", "a", "l", "y", "z", "e">>>>

blockchain_patterns == <<<<"b", "l", "o", "c", "k">>, <<"t", "r", "a", "n", "s", "a", "c", "t", "i", "o", "n">>, <<"t", "x">>, <<"c", "o", "n", "t", "r", "a", "c", "t">>, <<"a", "s", "s", "e", "t", " ", "i", "n", "f", "o">>>>

nft_patterns == <<<<"n", "f", "t">>, <<"n", "e", "p", "1", "1">>, <<"c", "o", "l", "l", "e", "c", "t", "i", "b", "l", "e">>, <<"n", "o", "n", "-", "f", "u", "n", "g", "i", "b", "l", "e">>>>

price_patterns == <<<<"p", "r", "i", "c", "e">>, <<"a", "l", "e", "r", "t">>, <<"m", "o", "n", "i", "t", "o", "r">>, <<"t", "r", "a", "c", "k", " ", "p", "r", "i", "c", "e">>>>

send_patterns == <<<<"s", "e", "n", "d">>, <<"t", "r", "a", "n", "s", "f", "e", "r">>, <<"p", "a", "y">>>>

bulk_markers == <<<<"b", "u", "l", "k">>, <<"m", "u", "l", "t", "i", "p", "l", "e">>>>

tx_analysis_patterns == <<<<"t", "r", "a", "n", "s", "a", "c", "t", "i", "o", "n", " ", "h", "i", "s", "t", "o", "r", "y">>, <<"t", "x", " ", "h", "i", "s", "t", "o", "r", "y">>, <<"r", "e", "c", "e", "n", "t", " ", "t", "r", "a", "n", "s", "a", "c", "t", "i", "o", "n", "s">>>>

gov_patterns == <<<<"g", "o", "v", "e", "r", "n", "a", "n", "c", "e">>, <<"c", "o", "m", "m", "i", "t", "t", "e", "e">>, <<"c", "a", "n", "d", "i", "d", "a", "t", "e">>, <<"v", "o", "t", "e">>, <<"v", "o", "t", "i", "n", "g">>>>

help_messages == {<<"h", "e", "l", "p">>, <<"?">>, <<"c", "o", "m", "m", "a", "n", "d", "s">>, <<"w", "h", "a", "t", " ", "c", "a", "n", " ", "y", "o", "u", " ", "d", "o">>}

\* re.search(r'([Nn][A-Za-z0-9]{33})', message): the leftmost match, or None
AddressSearch(message) ==
    LET hits == {i \in 1..Len(message) :
                    message[i] \in {"N", "n"} /\ ClassRun(message, i + 1, 33, Alnum)}
    IN  IF hits = {} THEN None ELSE SubSeq(message, Min(hits), Min(hits) + 33)

\* re.search(r'(0x[a-fA-F0-9]{40})', message)
TokenSearch(message) ==
    LET hits == {i \in 1..Len(message) :
                    StartsAt(message, i, <<"0", "x">>) /\ ClassRun(message, i + 2, 40, HexChars)}
    IN  IF hits = {} THEN None ELSE SubSeq(message, Min(hits), Min(hits) + 41)

\* re.search(r'https?://[^\s]+', message): greedy up to the next whitespace
UrlSearch(message) ==
    LET StartLen(i) == IF StartsAt(message, i, <<"h", "t", "t", "p", ":", "/", "/">>) THEN 7
                       ELSE IF StartsAt(message, i, <<"h", "t", "t", "p", "s", ":", "/", "/">>) THEN 8 ELSE 0
        hits == {i \in 1..Len(message) :
                    /\ StartLen(i) > 0
                    /\ i + StartLen(i) <= Len(message)
                    /\ message[i + StartLen(i)] \notin Whitespace}
        stops == {k \in Min(hits)..Len(message) : message[k] \in Whitespace}
    IN  IF hits = {} THEN None
        ELSE SubSeq(message, Min(hits), IF stops = {} THEN Len(message) ELSE Min(stops) - 1)

\* the three key patterns, tried in order, each by re.search
KeySearch(message) ==
    LET wif == {i \in 1..Len(message) :
                    message[i] \in {"K", "L"} /\ ClassRun(message, i + 1, 51, Base58Chars)}
        hex0x == {i \in 1..Len(message) :
                    StartsAt(message, i, <<"0", "x">>) /\ ClassRun(message, i + 2, 64, HexChars)}
        raw == {i \in 1..Len(message) :
                    /\ WordBoundary(message, i)
                    /\ ClassRun(message, i, 64, HexChars)
                    /\ WordBoundary(message, i + 64)}
    IN  IF wif # {} THEN SubSeq(message, Min(wif), Min(wif) + 51)
        ELSE IF hex0x # {} THEN SubSeq(message, Min(hex0x), Min(hex0x) + 65)
        ELSE IF raw # {} THEN SubSeq(message, Min(raw), Min(raw) + 63)
        ELSE None

NoMatch == [matched |-> FALSE]

\* (?:send|transfer|pay)\s+(\d+(?:\.\d+)?)\s+(neo|gas)\s+to\s+([Nn][A-Za-z0-9]{33})
\* anchored at index i. Every quantifier is greedy and is followed by a
\* character outside its class, so the longest runs are the only match.
SendMatchAt(s, i) ==
    LET verbs == {k \in 1..Len(send_patterns) : StartsAt(s, i, send_patterns[k])}
    IN  IF verbs = {} THEN NoMatch
        ELSE
        LET a0 == i + Len(send_patterns[Min(verbs)])
            a1 == RunEnd(s, a0, Whitespace)
            d1 == RunEnd(s, a1, Digits)
            f1 == IF d1 <= Len(s) /\ s[d1] = "." THEN RunEnd(s, d1 + 1, Digits) ELSE d1
            d2 == IF f1 > d1 + 1 THEN f1 ELSE d1
            b1 == RunEnd(s, d2, Whitespace)
            c0 == b1 + 3
            c1 == RunEnd(s, c0, Whitespace)
            e0 == c1 + 2
            e1 == RunEnd(s, e0, Whitespace)
        IN  IF /\ a1 > a0
               /\ d1 > a1
               /\ b1 > d2
               /\ (StartsAt(s, b1, <<"n", "e", "o">>) \/ StartsAt(s, b1, <<"g", "a", "s">>))
               /\ c1 > c0
               /\ StartsAt(s, c1, <<"t", "o">>)
               /\ e1 > e0
               /\ e1 <= Len(s)
               /\ s[e1] \in {"N", "n"}
               /\ ClassRun(s, e1 + 1, 33, Alnum)
            THEN [matched |-> TRUE,
                  group1  |-> SubSeq(s, a1, d2 - 1),
                  group2  |-> SubSeq(s, b1, b1 + 2),
                  group3  |-> SubSeq(s, e1, e1 + 33)]
            ELSE NoMatch

\* re.search of the send pattern: the leftmost index with a match
SendSearch(s) ==
    LET hits == {i \in 1..Len(s) : SendMatchAt(s, i).matched}
    IN  IF hits = {} THEN NoMatch ELSE SendMatchAt(s, Min(hits))

\* an intent dict; the keys a branch does not set are None
Intent(type) ==
    [type |-> type, private_key |-> None, address |-> None, target |-> None,
     target_type |-> None, amount |-> 0, asset |-> None, recipient |-> None]

\* the single-recipient parse tried before the bulk test
parse_send_category_single_first(message, message_lower) ==
    LET match == SendSearch(message_lower)
    IN  IF match.matched
        THEN [Intent("send_transaction") EXCEPT
                  !.amount = ParseFloat(match.group1),
                  !.asset = str_upper(match.group2),
                  !.recipient = match.group3]
        ELSE IF AnyIn(message_lower, bulk_markers) \/ Contains(message, <<",">>)
        THEN Intent("bulk_transaction")
        ELSE Intent("transaction_help")

\* parse_intent, the branch of the send category
parse_send_category(message, message_lower) ==
    IF AnyIn(message_lower, bulk_markers) \/ Contains(message, <<",">>)
    THEN Intent("bulk_transaction")
    ELSE LET match == SendSearch(message_lower)
         IN  IF match.matched
             THEN [Intent("send_transaction") EXCEPT
                       !.amount = ParseFloat(match.group1),
                       !.asset = str_upper(match.group2),
                       !.recipient = match.group3]
             ELSE Intent("transaction_help")

parse_intent(message) ==
    LET message_lower == str_lower(message)
    IN  IF AnyIn(message_lower, wallet_patterns)
        THEN [Intent("wallet_operations") EXCEPT !.private_key = KeySearch(message)]
        ELSE IF AnyIn(message_lower, balance_patterns)
        THEN [Intent("balance_check") EXCEPT !.address = AddressSearch(message)]
        ELSE IF AnyIn(message_lower, security_patterns)
        THEN LET address_match == AddressSearch(message)
                 token_match   == TokenSearch(message)
                 url_match     == UrlSearch(message)
             IN  IF address_match # None
                 THEN [Intent("security_analysis") EXCEPT !.target = address_match,
                                                          !.target_type = <<"a", "d", "d", "r", "e", "s", "s">>]
                 ELSE IF token_match # None
                 THEN [Intent("security_analysis") EXCEPT !.target = token_match,
                                                          !.target_type = <<"t", "o", "k", "e", "n">>]
                 ELSE IF url_match # None
                 THEN [Intent("security_analysis") EXCEPT !.target = url_match,
                                                          !.target_type = <<"u", "r", "l">>]
                 ELSE [Intent("security_analysis") EXCEPT !.target_type = <<"a", "d", "d", "r", "e", "s", "s">>]
        ELSE IF AnyIn(message_lower, blockchain_patterns)
        THEN Intent("blockchain_data")
        ELSE IF AnyIn(message_lower, nft_patterns)
        THEN [Intent("nft_operations") EXCEPT !.address = AddressSearch(message)]
        ELSE IF AnyIn(message_lower, price_patterns)
        THEN Intent("price_monitoring")
        ELSE IF AnyIn(message_lower, send_patterns)
        THEN parse_send_category(message, message_lower)
        ELSE IF AnyIn(message_lower, tx_analysis_patterns)
        THEN Intent("transaction_analysis")
        ELSE IF AnyIn(message_lower, gov_patterns)
        THEN Intent("governance_info")
        ELSE IF message_lower \in help_messages
        THEN Intent("help")
        ELSE Intent("general")

\* ------------------------------------------------------------------------
\* Addresses and messages of the model
\* ------------------------------------------------------------------------

\* addresses that appear in the repository
AddrNiEt == <<"N", "i", "E", "t", "V", "M", "W", "V", "Y", "g", "p", "X", "r", "W", "k", "R", "T", "M", "w", "R", "a", "M", "J", "t", "J", "4", "1", "g", "D", "3", "9", "1", "2", "N">>

AddrNhGo == <<"N", "h", "G", "o", "m", "K", "y", "Z", "g", "S", "u", "Y", "U", "G", "q", "r", "X", "H", "c", "p", "v", "1", "b", "N", "H", "9", "n", "t", "w", "v", "f", "m", "4", "c">>

AddrNUVP == <<"N", "U", "V", "P", "A", "C", "M", "n", "K", "F", "h", "p", "u", "H", "j", "s", "R", "j", "h", "U", "v", "X", "z", "1", "X", "h", "q", "f", "G", "Z", "Y", "V", "t", "Y">>

AddrNVBy == <<"N", "V", "B", "y", "r", "j", "4", "w", "4", "W", "6", "m", "t", "X", "j", "7", "L", "h", "q", "u", "9", "t", "q", "g", "Z", "7", "A", "p", "Q", "b", "4", "U", "G", "3">>

AddrMalicious1 == <<"N", "M", "a", "l", "i", "c", "i", "o", "u", "s", "A", "d", "d", "r", "e", "s", "s", "E", "x", "a", "m", "p", "l", "e", "1", "2", "3", "4", "5", "6", "7", "8", "9">>

AddrMalicious2 == <<"N", "P", "h", "i", "s", "h", "i", "n", "g", "S", "c", "a", "m", "A", "d", "d", "r", "e", "s", "s", "1", "2", "3", "4", "5", "6", "7", "8", "9", "A", "B", "C">>

AddrMalicious3 == <<"N", "S", "c", "a", "m", "W", "a", "l", "l", "e", "t", "A", "d", "d", "r", "e", "s", "s", "9", "0", "1", "2", "3", "4", "5", "6", "7", "8", "9", "0", "1", "2", "3">>

\* the bound on the words put before a send request
MaxPrefixWords == 1

PrefixWords == {<<"c", "o", "n", "f", "i", "r", "m">>, <<"b", "u", "l", "k">>}

RECURSIVE WordSeqs(_, _)
WordSeqs(W, n) ==
    IF n = 0 THEN {<< >>}
    ELSE WordSeqs(W, n - 1) \cup {Append(q, w) : q \in WordSeqs(W, n - 1), w \in W}

SendVerbs == {<<"s", "e", "n", "d">>, <<"T", "r", "a", "n", "s", "f", "e", "r">>, <<"p", "a", "y">>}

SendAmounts == {<<<<"5">>>>, <<<<"1", "0", ".", "5">>>>, << >>}

SendAssets == {<<<<"N", "E", "O">>>>, <<<<"g", "a", "s">>>>, <<<<"B", "T", "C">>>>, << >>}

SendRecipients == {AddrNiEt, AddrNVBy, AddrMalicious1}

SendSuffixes == {<< >>, <<<<",">>>>, <<<<"m", "u", "l", "t", "i", "p", "l", "e">>>>, <<<<"m", "y", " ", "b", "a", "l", "a", "n", "c", "e">>>>}

\* requests of the shape  [words] verb [amount] [asset] to recipient [suffix]
SendMessages ==
    {JoinWords(pre \o <<v>> \o am \o as \o <<<<"t", "o">>, r>> \o post) :
        pre \in WordSeqs(PrefixWords, MaxPrefixWords), v \in SendVerbs, am \in SendAmounts,
        as \in SendAssets, r \in SendRecipients, post \in SendSuffixes}

\* every trigger of the router, in the order of its groups
AllTriggers ==
    wallet_patterns \o balance_patterns \o security_patterns \o blockchain_patterns
    \o nft_patterns \o price_patterns \o send_patterns \o tx_analysis_patterns
    \o gov_patterns \o <<<<"h", "e", "l", "p">>, <<"?">>, <<"c", "o", "m", "m", "a", "n", "d", "s">>, <<"w", "h", "a", "t", " ", "c", "a", "n", " ", "y", "o", "u", " ", "d", "o">>>>

\* messages made of one or two triggers
TriggerMessages ==
    {AllTriggers[i] : i \in 1..Len(AllTriggers)}
    \cup {JoinWords(<<AllTriggers[i], AllTriggers[j]>>) :
            i \in 1..Len(AllTriggers), j \in 1..Len(AllTriggers)}

\* the literal commands of the help reference and of the wallet-loaded message
HelpCommands ==
    {<<"w", "a", "l", "l", "e", "t", " ", "s", "t", "a", "t", "u", "s">>, <<"m", "y", " ", "a", "d", "d", "r", "e", "s", "s">>, <<"c", "h", "e", "c", "k", " ", "m", "y", " ", "b", "a", "l", "a", "n", "c", "e">>, <<"m", "y", " ", "n", "f", "t", "s">>, <<"b", "l", "o", "c", "k", " ", "h", "e", "i", "g", "h", "t">>,
     <<"r", "e", "c", "e", "n", "t", " ", "b", "l", "o", "c", "k", "s">>, <<"a", "s", "s", "e", "t", " ", "c", "o", "u", "n", "t">>, <<"c", "h", "e", "c", "k", " ", "m", "y", " ", "a", "l", "e", "r", "t", "s">>, <<"n", "e", "o", " ", "p", "r", "i", "c", "e">>, <<"s", "e", "n", "d", " ", "h", "e", "l", "p">>,
     <<"c", "o", "m", "m", "i", "t", "t", "e", "e", " ", "i", "n", "f", "o">>, <<"c", "a", "n", "d", "i", "d", "a", "t", "e", " ", "c", "o", "u", "n", "t">>, <<"h", "e", "l", "p">>, <<"H", "e", "l", "p">>, <<"t", "r", "a", "n", "s", "a", "c", "t", "i", "o", "n", " ", "h", "i", "s", "t", "o", "r", "y">>,
     <<"t", "x", " ", "h", "i", "s", "t", "o", "r", "y">>, <<"r", "e", "c", "e", "n", "t", " ", "t", "r", "a", "n", "s", "a", "c", "t", "i", "o", "n", "s">>, <<"h", "e", "l", "l", "o">>, << >>}

RouterMessages == SendMessages \cup TriggerMessages \cup HelpCommands

\* ------------------------------------------------------------------------
\* GoPlusLabsClient and ComprehensiveSecuritySuite
\* ------------------------------------------------------------------------

\* What one HTTP exchange with the security API does. http: the request
\* returns status 200, returns another status, or throws (also on timeout).
\* A 200 body holds no "result" key, "result": null, or "result": {...};
\* ones are the keys of the result whose value is "1"; the taxes are floats in
\* hundredths, TaxUnparseable for a string float() rejects.
TaxUnparseable == 0 - 1

ApiReply(http, result, ones, has_token, buy_tax, sell_tax) ==
    [http |-> http, result |-> result, ones |-> ones, has_token |-> has_token,
     buy_tax |-> buy_tax, sell_tax |-> sell_tax]

ReplyThrows == ApiReply("throws", "absent", {}, FALSE, 0, 0)

ReplyNon200 == ApiReply("non200", "absent", {}, FALSE, 0, 0)

ReplyNoResult == ApiReply("ok", "absent", {}, FALSE, 0, 0)

ReplyNullResult == ApiReply("ok", "null", {}, FALSE, 0, 0)

ReplyClean == ApiReply("ok", "dict", {}, TRUE, 0, 0)

FlaggedReplies ==
    {ApiReply("ok", "dict", {f}, TRUE, 0, 0) :
        f \in {"phishing_activities", "fake_token", "is_honeypot",
               "malicious_activity", "phishing_site"}}

TokenReplies ==
    {ApiReply("ok", "dict", {}, TRUE, 1000, 0), ApiReply("ok", "dict", {}, TRUE, 0, 100),
     ApiReply("ok", "dict", {}, TRUE, 500, TaxUnparseable), ApiReply("ok", "dict", {}, FALSE, 0, 0)}

GoPlusReplies ==
    {ReplyThrows, ReplyNon200, ReplyNoResult, ReplyNullResult, ReplyClean}
    \cup FlaggedReplies \cup TokenReplies

\* GoPlusLabsClient._make_request: the parsed body, or {"error": ...}
goplus_make_request(reply) ==
    IF reply.http = "ok"
    THEN [error |-> FALSE, result |-> reply.result, ones |-> reply.ones,
          has_token |-> reply.has_token, buy_tax |-> reply.buy_tax, sell_tax |-> reply.sell_tax]
    ELSE [error |-> TRUE, result |-> "absent", ones |-> {},
          has_token |-> FALSE, buy_tax |-> 0, sell_tax |-> 0]

\* a value a client method returns: a dict (with the keys set to "1"), None,
\* or raised when the method throws
Returned(kind, ones) == [kind |-> kind, ones |-> ones]

\* GoPlusLabsClient.check_address_security
goplus_check_address_security(reply) ==
    LET result == goplus_make_request(reply)
    IN  IF result.result # "absent"
        THEN IF result.result = "null" THEN Returned("null", {})
             ELSE Returned("dict", result.ones)
        ELSE Returned("dict", {})

\* GoPlusLabsClient.check_dapp_security and check_phishing_site:
\* result.get("result", {})
goplus_get_result(reply) ==
    LET result == goplus_make_request(reply)
    IN  IF result.result = "null" THEN Returned("null", {})
        ELSE IF result.result = "dict" THEN Returned("dict", result.ones)
        ELSE Returned("dict", {})

\* GoPlusLabsClient.check_token_security: a TokenAnalysis, or raised
goplus_check_token_security(reply) ==
    LET result == goplus_make_request(reply)
    IN  IF result.result = "null" THEN [raised |-> TRUE]
        ELSE IF result.result = "dict" /\ result.has_token
        THEN IF result.buy_tax = TaxUnparseable \/ result.sell_tax = TaxUnparseable
             THEN [raised |-> TRUE]
             ELSE [raised |-> FALSE,
                   is_honeypot |-> "is_honeypot" \in result.ones,
                   can_sell |-> result.sell_tax # 100,
                   buy_tax |-> result.buy_tax,
                   sell_tax |-> result.sell_tax]
        ELSE [raised |-> FALSE, is_honeypot |-> FALSE, can_sell |-> TRUE,
              buy_tax |-> 0, sell_tax |-> 0]

malicious_indicators ==
    {"blacklist_doubt", "blackmail_activities", "cybercrime", "darkweb_transactions",
     "financial_crime", "mixer", "money_laundering", "phishing_activities",
     "stealing_attack"}

\* the risk level with the first threshold exclusive
RiskLevel_exclusive(passed_checks, total_checks) ==
    IF 10 * passed_checks > 9 * total_checks THEN "low"
    ELSE IF 10 * passed_checks > 7 * total_checks THEN "medium"
    ELSE IF 10 * passed_checks >= 5 * total_checks THEN "high"
    ELSE "critical"

\* the risk level of passed_checks out of total_checks > 0:
\* pass_rate >= 0.9, >= 0.7, >= 0.5 compared without division
RiskLevel(passed_checks, total_checks) ==
    IF 10 * passed_checks >= 9 * total_checks THEN "low"
    ELSE IF 10 * passed_checks >= 7 * total_checks THEN "medium"
    ELSE IF 10 * passed_checks >= 5 * total_checks THEN "high"
    ELSE "critical"

\* min(pass_rate + 0.1, 1.0), in hundredths
Confidence(passed_checks, total_checks) ==
    LET c == (100 * passed_checks) \div total_checks + 10
    IN  IF c < 100 THEN c ELSE 100

SecurityResult(is_safe, risk_level, confidence, checks_passed, total_checks) ==
    [is_safe |-> is_safe, risk_level |-> risk_level, confidence |-> confidence,
     checks_passed |-> checks_passed, total_checks |-> total_checks]

\* the SecurityResult of the except branch
SecurityResultOnException == SecurityResult(FALSE, "unknown", 0, 0, 1)

\* the tail of comprehensive_security_check: risk level, confidence, verdict
SecurityVerdict(passed_checks, total_checks) ==
    IF total_checks = 0
    THEN SecurityResult(FALSE, "unknown", 0, passed_checks, total_checks)
    ELSE SecurityResult(passed_checks = total_checks /\ total_checks > 0,
                        RiskLevel(passed_checks, total_checks),
                        Confidence(passed_checks, total_checks),
                        passed_checks, total_checks)

\* ComprehensiveSecuritySuite.comprehensive_security_check; reply1 and reply2
\* are what the first and the second request of the call do
comprehensive_security_check(target_type, reply1, reply2) ==
    IF target_type = <<"a", "d", "d", "r", "e", "s", "s">>
    THEN LET address_result == goplus_check_address_security(reply1)
         IN  IF address_result.kind = "null" THEN SecurityResultOnException
             ELSE SecurityVerdict(
                    IF address_result.ones \cap malicious_indicators = {} THEN 1 ELSE 0, 1)
    ELSE IF target_type = <<"t", "o", "k", "e", "n">>
    THEN LET token_analysis == goplus_check_token_security(reply1)
         IN  IF token_analysis.raised THEN SecurityResultOnException
             ELSE SecurityVerdict(
                    IF /\ ~token_analysis.is_honeypot
                       /\ token_analysis.can_sell
                       /\ token_analysis.buy_tax < 1000
                       /\ token_analysis.sell_tax < 1000
                    THEN 1 ELSE 0, 1)
    ELSE IF target_type = <<"u", "r", "l">>
    THEN LET dapp_result     == goplus_get_result(reply1)
             phishing_result == goplus_get_result(reply2)
         IN  IF dapp_result.kind = "null" \/ phishing_result.kind = "null"
             THEN SecurityResultOnException
             ELSE SecurityVerdict(
                    (IF "malicious_activity" \notin dapp_result.ones THEN 1 ELSE 0)
                    + (IF "phishing_site" \notin phishing_result.ones THEN 1 ELSE 0), 2)
    ELSE SecurityVerdict(0, 0)


\* ---- ComprehensiveSecurityChecker -------------------------------------------

malicious_flags ==
    {"blacklist_doubt", "blackmail_activities", "cybercrime", "darkweb_transactions",
     "financial_crime", "fake_token", "honeypot_related_address",
     "malicious_mining_activities", "mixer", "money_laundering", "phishing_activities",
     "stealing_attack"}

\* ComprehensiveSecurityChecker._check_goplus_security: the check it returns;
\* an exception (also result.get on "result": null) gives "check_failed"
_check_goplus_security(reply) ==
    IF reply.http = "throws" \/ (reply.http = "ok" /\ reply.result = "null")
    THEN [returned |-> TRUE, is_safe |-> TRUE, status |-> "check_failed"]
    ELSE IF reply.http = "ok"
    THEN LET detected_flags == (IF reply.result = "dict" THEN reply.ones ELSE {})
                                   \cap malicious_flags
         IN  [returned |-> TRUE, is_safe |-> detected_flags = {},
              status |-> IF detected_flags # {} THEN "flagged" ELSE "clean"]
    ELSE [returned |-> TRUE, is_safe |-> TRUE, status |-> "api_error"]

\* ComprehensiveSecurityChecker.__init__: the key the checker uses
checker_goplus_api_key(env) ==
    IF env.GOPLUS_API_KEY # None /\ env.GOPLUS_API_KEY # << >>
    THEN env.GOPLUS_API_KEY
    ELSE env.GO_PLUS_LABS_APP_KEY

\* ComprehensiveSecurityChecker._check_address_format. library: what
\* neo3.wallet.utils.is_valid_address does, "valid", "invalid" or "raises"
_check_address_format(address, neo3_available, library) ==
    IF address = None \/ address = << >> \/ Len(address) # 34 \/ address[1] # "N"
    THEN [is_safe |-> FALSE, status |-> "invalid_format"]
    ELSE IF neo3_available /\ library # "raises"
    THEN [is_safe |-> library = "valid",
          status |-> IF library = "valid" THEN "valid" ELSE "invalid"]
    ELSE [is_safe |-> TRUE, status |-> "basic_validation"]

\* ComprehensiveSecurityChecker.check_address_security with
\* _check_neo_network_validity and _calculate_risk_level: the checks that
\* carry "is_safe" and the results
checker_check_address_security(address, env, reply, neo3_available, library) ==
    LET api_key == checker_goplus_api_key(env)
        format  == _check_address_format(address, neo3_available, library)
        goplus  == IF api_key # None /\ api_key # << >>
                   THEN [has_is_safe |-> TRUE] @@ _check_goplus_security(reply)
                   ELSE [has_is_safe |-> FALSE, is_safe |-> TRUE, status |-> "skipped"]
        neo_network == [is_safe |-> TRUE, status |-> "assumed_valid"]
        unsafe_checks == (IF ~format.is_safe THEN 1 ELSE 0)
                         + (IF goplus.has_is_safe /\ ~goplus.is_safe THEN 1 ELSE 0)
                         + (IF ~neo_network.is_safe THEN 1 ELSE 0)
    IN  [made |-> TRUE, address |-> address, env |-> env,
         format |-> format.status, goplus |-> goplus.status,
         is_safe |-> /\ format.is_safe
                     /\ (goplus.has_is_safe => goplus.is_safe)
                     /\ neo_network.is_safe,
         risk_level |-> IF unsafe_checks = 0 THEN "low"
                        ELSE IF unsafe_checks <= 1 THEN "medium" ELSE "high"]
\* ------------------------------------------------------------------------
\* AdvancedNeoWalletManager
\* ------------------------------------------------------------------------

KeyWif == <<"K", "x", "c", "g", "H", "R", "T", "c", "8", "S", "U", "c", "v", "w", "k", "G", "7", "V", "8", "H", "L", "o", "F", "r", "P", "H", "k", "U", "M", "s", "k", "e", "V", "9", "n", "x", "5", "f", "v", "u", "T", "b", "s", "E", "U", "3", "z", "3", "k", "A", "S", "2">>

KeyHex == <<"0", "x", "1", "2", "3", "4", "5", "6", "7", "8", "9", "0", "a", "b", "c", "d", "e", "f", "1", "2", "3", "4", "5", "6", "7", "8", "9", "0", "a", "b", "c", "d", "e", "f", "1", "2", "3", "4", "5", "6", "7", "8", "9", "0", "a", "b", "c", "d", "e", "f", "1", "2", "3", "4", "5", "6", "7", "8", "9", "0", "a", "b", "c", "d", "e", "f">>

\* str.strip()
str_strip(s) ==
    LET keep == {k \in 1..Len(s) : s[k] \notin Whitespace}
    IN  IF keep = {} THEN << >>
        ELSE SubSeq(s, Min(keep), CHOOSE k \in keep : \A l \in keep : l <= k)

\* the address the neo3 library derives from an accepted key
\* (Account.from_wif(...).address, Account.from_private_key(...).address)
AccountAddress(private_key) == IF private_key = KeyWif THEN AddrNVBy ELSE AddrNiEt

\* AdvancedNeoWalletManager.__init__
WalletInit ==
    [private_key |-> None, wallet_address |-> None, account |-> None, is_loaded |-> FALSE]

\* AdvancedNeoWalletManager.load_private_key: the manager afterwards and the
\* value returned. library_accepts: the neo3 library builds an Account from
\* the key (it raises otherwise).
load_private_key(wm, neo3_available, key, library_accepts) ==
    LET stripped == str_strip(key)
        wm1      == [wm EXCEPT !.private_key = stripped]
        derived  == [wm1 EXCEPT !.account = stripped,
                                !.wallet_address = AccountAddress(stripped),
                                !.is_loaded = TRUE]
        wif      == StartsAt(stripped, 1, <<"K">>) \/ StartsAt(stripped, 1, <<"L">>)
        hex0x    == Len(stripped) = 66 /\ StartsAt(stripped, 1, <<"0", "x">>)
        rawhex   == Len(stripped) = 64
    IN  IF ~neo3_available THEN [wm |-> wm1, ok |-> FALSE]
        ELSE IF wif \/ hex0x \/ rawhex
        THEN IF library_accepts THEN [wm |-> derived, ok |-> TRUE]
             ELSE [wm |-> wm1, ok |-> FALSE]
        ELSE [wm |-> wm1, ok |-> FALSE]

\* AdvancedNeoWalletManager.get_address
get_address(wm) == IF wm.is_loaded THEN wm.wallet_address ELSE None

\* ------------------------------------------------------------------------
\* NeoXBridgeComprehensiveAgent: the handlers
\* ------------------------------------------------------------------------

\* network_fee = 0.5, in hundredths
network_fee == 50

NoPreview == [present |-> FALSE]

\* an AgentResponse: success, action_type and, of data, the transaction
\* preview; returned is FALSE when the handler returns no AgentResponse
AgentResponse(success, action_type) ==
    [returned |-> TRUE, success |-> success, action_type |-> action_type,
     transaction_preview |-> NoPreview]

NoResponse ==
    [returned |-> FALSE, success |-> FALSE, action_type |-> "", transaction_preview |-> NoPreview]

\* handle_wallet_operations: the wallet manager afterwards and the response
handle_wallet_operations(it, wm, neo3_available, library_accepts) ==
    IF it.private_key # None /\ it.private_key # << >>
    THEN LET loaded == load_private_key(wm, neo3_available, it.private_key, library_accepts)
         IN  [wm |-> loaded.wm,
              response |-> IF loaded.ok THEN AgentResponse(TRUE, "wallet_loaded")
                           ELSE AgentResponse(FALSE, "wallet_error")]
    ELSE [wm |-> wm,
          response |-> IF wm.is_loaded THEN AgentResponse(TRUE, "wallet_status")
                       ELSE AgentResponse(FALSE, "wallet_status")]

\* handle_send_transaction. balances: what wallet_manager.get_balance()
\* returns, as floats in hundredths; security_result: what the security suite
\* returns for the recipient. read tells whether the balance was read,
\* checked whether the suite was called.
handle_send_transaction(it, wm, balances, security_result) ==
    IF ~wm.is_loaded
    THEN [response |-> AgentResponse(FALSE, "transaction_error"), read |-> FALSE,
          checked |-> FALSE]
    ELSE IF it.amount = 0 \/ it.recipient = None \/ it.recipient = << >>
    THEN [response |-> AgentResponse(FALSE, "transaction_error"), read |-> FALSE,
          checked |-> FALSE]
    ELSE
    LET sender_address  == get_address(wm)
        current_balance == IF it.asset = <<"N", "E", "O">> THEN balances.NEO
                           ELSE IF it.asset = <<"G", "A", "S">> THEN balances.GAS ELSE 0
        required_amount == it.amount + (IF it.asset = <<"G", "A", "S">> THEN network_fee ELSE 0)
    IN  IF current_balance < required_amount
        THEN [response |-> AgentResponse(FALSE, "transaction_error"), read |-> TRUE,
              checked |-> FALSE]
        ELSE [response |->
                [AgentResponse(TRUE, "transaction_preview") EXCEPT
                    !.transaction_preview =
                        [present |-> TRUE, from |-> sender_address, to |-> it.recipient,
                         amount |-> it.amount, asset |-> it.asset,
                         network_fee |-> network_fee,
                         security_check |-> security_result.is_safe]],
              read |-> TRUE, checked |-> TRUE]

\* handle_bulk_transaction
handle_bulk_transaction(wm) ==
    IF ~wm.is_loaded THEN AgentResponse(FALSE, "transaction_error")
    ELSE AgentResponse(TRUE, "feature_preview")

\* the help answered as a failure
get_transaction_help_response_error == AgentResponse(FALSE, "transaction_error")

\* get_transaction_help_response
get_transaction_help_response == AgentResponse(TRUE, "transaction_help")

\* get_help_response
get_help_response == AgentResponse(TRUE, "help")

\* handle_general_query
handle_general_query == AgentResponse(TRUE, "welcome")

\* handle_balance_operations
handle_balance_operations(it, wm) ==
    IF (it.address = None \/ it.address = << >>) /\ ~wm.is_loaded
    THEN AgentResponse(FALSE, "balance_error")
    ELSE AgentResponse(TRUE, "balance_check")

\* handle_security_analysis
handle_security_analysis(it) ==
    IF it.target = None \/ it.target = << >>
    THEN AgentResponse(FALSE, "security_help")
    ELSE AgentResponse(TRUE, "security_analysis")

\* ------------------------------------------------------------------------
\* NeoAPIClient, as the handlers use it
\* ------------------------------------------------------------------------

\* What one RPC exchange does: "ok" a result of the expected shape, "empty"
\* an empty result, "malformed" a result object without the expected fields,
\* "null" "result": null, "error" a body with "error" and no "result",
\* "throws" the request or the JSON decoding raises.
RpcOutcomes == {"ok", "empty", "malformed", "null", "error", "throws"}

\* NeoAPIClient._make_request: is "result" a key of what it returns
rpc_has_result(rpc) == rpc \in {"ok", "empty", "malformed", "null"}

\* get_block_count, get_asset_count, get_candidate_count:
\* result["result"][key] if "result" in result, else 0
get_count(rpc) ==
    IF rpc_has_result(rpc)
    THEN IF rpc = "ok" THEN [raised |-> FALSE, zero |-> FALSE]
         ELSE [raised |-> TRUE, zero |-> FALSE]
    ELSE [raised |-> FALSE, zero |-> TRUE]

\* `"result" in x and x["result"]` on what get_recent_blocks, get_nep11_owned
\* and get_committee return
rpc_result_truthy(rpc) == rpc \in {"ok", "malformed"}

\* handle_blockchain_data
handle_blockchain_data(message, rpc1, rpc2) ==
    LET query == str_lower(message)
    IN  IF Contains(query, <<"b", "l", "o", "c", "k">>) /\ Contains(query, <<"h", "e", "i", "g", "h", "t">>)
        THEN IF get_count(rpc1).raised THEN AgentResponse(FALSE, "blockchain_error")
             ELSE AgentResponse(TRUE, "blockchain_info")
        ELSE IF Contains(query, <<"r", "e", "c", "e", "n", "t", " ", "b", "l", "o", "c", "k", "s">>)
        THEN IF rpc_result_truthy(rpc1)
             THEN IF rpc1 = "malformed" THEN AgentResponse(FALSE, "blockchain_error")
                  ELSE AgentResponse(TRUE, "blockchain_info")
             ELSE NoResponse
        ELSE IF Contains(query, <<"a", "s", "s", "e", "t", " ", "c", "o", "u", "n", "t">>)
        THEN IF get_count(rpc1).raised THEN AgentResponse(FALSE, "blockchain_error")
             ELSE AgentResponse(TRUE, "blockchain_info")
        ELSE IF get_count(rpc1).raised \/ get_count(rpc2).raised
             THEN AgentResponse(FALSE, "blockchain_error")
             ELSE AgentResponse(TRUE, "blockchain_info")

\* handle_nft_operations
handle_nft_operations(it, wm, rpc1) ==
    IF (it.address = None \/ it.address = << >>) /\ ~wm.is_loaded
    THEN AgentResponse(FALSE, "nft_error")
    ELSE IF rpc_result_truthy(rpc1) /\ rpc1 = "malformed"
    THEN AgentResponse(FALSE, "nft_error")
    ELSE AgentResponse(TRUE, "nft_info")

\* handle_transaction_analysis
handle_transaction_analysis(wm) ==
    IF wm.is_loaded THEN AgentResponse(TRUE, "transaction_analysis")
    ELSE AgentResponse(FALSE, "transaction_error")

\* handle_governance_info: rpc1 is get_committee, rpc2 get_candidate_count
handle_governance_info(rpc1, rpc2) ==
    IF get_count(rpc2).raised THEN AgentResponse(FALSE, "governance_error")
    ELSE IF rpc_result_truthy(rpc1) THEN AgentResponse(TRUE, "governance_info")
    ELSE AgentResponse(FALSE, "governance_error")

\* ------------------------------------------------------------------------
\* CryptoPriceMonitor, as handle_price_monitoring uses it
\* ------------------------------------------------------------------------

alert_symbols == <<<<"n", "e", "o">>, <<"g", "a", "s">>, <<"b", "i", "t", "c", "o", "i", "n">>, <<"e", "t", "h", "e", "r", "e", "u", "m">>>>

alert_conditions == <<<<"a", "b", "o", "v", "e">>, <<"b", "e", "l", "o", "w">>>>

\* (neo|gas|bitcoin|ethereum)\s+(above|below)\s+([\d.]+) anchored at index i
AlertMatchAt(s, i) ==
    LET syms == {k \in 1..Len(alert_symbols) : StartsAt(s, i, alert_symbols[k])}
    IN  IF syms = {} THEN NoMatch
        ELSE
        LET a0 == i + Len(alert_symbols[Min(syms)])
            a1 == RunEnd(s, a0, Whitespace)
            cs == {k \in 1..Len(alert_conditions) : StartsAt(s, a1, alert_conditions[k])}
            b0 == a1 + (IF cs = {} THEN 0 ELSE Len(alert_conditions[Min(cs)]))
            b1 == RunEnd(s, b0, Whitespace)
            p1 == RunEnd(s, b1, Digits \cup {"."})
        IN  IF a1 > a0 /\ cs # {} /\ b1 > b0 /\ p1 > b1
            THEN [matched |-> TRUE,
                  group1  |-> alert_symbols[Min(syms)],
                  group2  |-> alert_conditions[Min(cs)],
                  group3  |-> SubSeq(s, b1, p1 - 1)]
            ELSE NoMatch

AlertSearch(s) ==
    LET hits == {i \in 1..Len(s) : AlertMatchAt(s, i).matched}
    IN  IF hits = {} THEN NoMatch ELSE AlertMatchAt(s, Min(hits))

\* float() accepts a text of [\d.]+ : one dot at most and a digit at least
FloatAccepts(t) ==
    /\ Cardinality({k \in 1..Len(t) : t[k] = "."}) <= 1
    /\ \E k \in 1..Len(t) : t[k] \in Digits

\* CryptoPriceMonitor.create_price_alert: the PriceAlert it appends
PriceAlert(symbol, target_price, condition) ==
    [symbol |-> str_upper(symbol), target_price |-> target_price,
     condition |-> str_lower(condition), active |-> TRUE, triggered |-> FALSE]

\* handle_price_monitoring: the alert list afterwards and the response
handle_price_monitoring(message, alerts) ==
    LET query == str_lower(message)
    IN  IF Contains(query, <<"c", "r", "e", "a", "t", "e", " ", "a", "l", "e", "r", "t">>) \/ Contains(query, <<"p", "r", "i", "c", "e", " ", "a", "l", "e", "r", "t">>)
        THEN LET match == AlertSearch(query)
             IN  IF match.matched
                 THEN IF FloatAccepts(match.group3)
                      THEN [alerts |-> Append(alerts,
                                PriceAlert(str_upper(match.group1), ParseFloat(match.group3),
                                           match.group2)),
                            response |-> AgentResponse(TRUE, "price_alert_created")]
                      ELSE [alerts |-> alerts,
                            response |-> AgentResponse(FALSE, "price_error")]
                 ELSE [alerts |-> alerts, response |-> AgentResponse(FALSE, "price_help")]
        ELSE IF Contains(query, <<"c", "h", "e", "c", "k", " ", "a", "l", "e", "r", "t", "s">>) \/ Contains(query, <<"m", "y", " ", "a", "l", "e", "r", "t", "s">>)
        THEN [alerts |-> alerts, response |-> AgentResponse(TRUE, "price_alerts")]
        ELSE [alerts |-> alerts, response |-> AgentResponse(TRUE, "price_help")]

\* ------------------------------------------------------------------------
\* The NeoAPIClient operations a handler calls
\* ------------------------------------------------------------------------

NoApiCall == [made |-> FALSE, method |-> "", rpc |-> "ok", raised |-> FALSE]

\* one NeoAPIClient operation on one RPC exchange: get_block_count,
\* get_asset_count and get_candidate_count index result["result"], the others
\* return what _make_request returned
neo_api_call(method, rpc) ==
    [made |-> TRUE, method |-> method, rpc |-> rpc,
     raised |-> IF method \in {"get_block_count", "get_asset_count", "get_candidate_count"}
                THEN get_count(rpc).raised
                ELSE FALSE]

\* the last NeoAPIClient operation the handler of an intent calls
last_api_call(it, message, wm, rpc1, rpc2) ==
    LET query == str_lower(message)
    IN  IF it.type = "blockchain_data"
        THEN IF Contains(query, <<"b", "l", "o", "c", "k">>) /\ Contains(query, <<"h", "e", "i", "g", "h", "t">>)
             THEN neo_api_call("get_block_count", rpc1)
             ELSE IF Contains(query, <<"r", "e", "c", "e", "n", "t", " ", "b", "l", "o", "c", "k", "s">>)
             THEN neo_api_call("get_recent_blocks", rpc1)
             ELSE IF Contains(query, <<"a", "s", "s", "e", "t", " ", "c", "o", "u", "n", "t">>)
             THEN neo_api_call("get_asset_count", rpc1)
             ELSE IF get_count(rpc1).raised
             THEN neo_api_call("get_block_count", rpc1)
             ELSE neo_api_call("get_asset_count", rpc2)
        ELSE IF it.type = "governance_info"
        THEN neo_api_call("get_candidate_count", rpc2)
        ELSE IF it.type = "nft_operations"
                /\ ~((it.address = None \/ it.address = << >>) /\ ~wm.is_loaded)
        THEN neo_api_call("get_nep11_owned", rpc1)
        ELSE NoApiCall

\* ------------------------------------------------------------------------
\* NeoXTools (src/src/tools.py)
\* ------------------------------------------------------------------------

valid_addresses == {AddrNiEt, AddrNhGo, AddrNUVP}

malicious_addresses == {AddrMalicious1, AddrMalicious2, AddrMalicious3}

\* mock_balances.get(address, {"NEO": "0.0", "GAS": "0.0"}), in hundredths
mock_balances(address) ==
    IF address = AddrNiEt THEN [NEO |-> 15000, GAS |-> 8542]
    ELSE IF address = AddrNhGo THEN [NEO |-> 2500, GAS |-> 1287]
    ELSE IF address = AddrNUVP THEN [NEO |-> 0, GAS |-> 215]
    ELSE [NEO |-> 0, GAS |-> 0]

\* NeoXTools.validate_address; address is a str or None
validate_address(address) ==
    IF address = None \/ Len(address) # 34
    THEN [is_valid |-> FALSE, format_valid |-> FALSE, network_exists |-> FALSE,
          reason |-> "Invalid length"]
    ELSE IF address[1] # "N"
    THEN [is_valid |-> FALSE, format_valid |-> FALSE, network_exists |-> FALSE,
          reason |-> "Invalid prefix"]
    ELSE [is_valid |-> address \in valid_addresses, format_valid |-> TRUE,
          network_exists |-> address \in valid_addresses,
          reason |-> IF address \in valid_addresses THEN "Valid address found on network"
                     ELSE "Address format is valid but not found on network"]

\* NeoXTools.check_address_security; confidence in hundredths
check_address_security(address) ==
    IF address \in malicious_addresses
    THEN [is_safe |-> FALSE, is_malicious |-> TRUE, risk_level |-> "high", confidence |-> 95,
          reason |-> "Address flagged as malicious by security database"]
    ELSE LET validation == validate_address(address)
         IN  IF validation.format_valid /\ validation.network_exists
             THEN [is_safe |-> TRUE, is_malicious |-> FALSE, risk_level |-> "low",
                   confidence |-> 85, reason |-> "Address appears safe and verified"]
             ELSE IF validation.format_valid
             THEN [is_safe |-> TRUE, is_malicious |-> FALSE, risk_level |-> "medium",
                   confidence |-> 70,
                   reason |-> "Address format is valid, but not found on network"]
             ELSE [is_safe |-> FALSE, is_malicious |-> FALSE, risk_level |-> "high",
                   confidence |-> 100, reason |-> "Invalid address format"]

\* "0x" + "a" * 62
mock_tx_hash == <<"0", "x">> \o [k \in 1..62 |-> "a"]

NoToolResult ==
    [tool |-> "none", success |-> FALSE, error |-> "", tx_hash |-> None, status |-> "",
     security_blocked |-> FALSE, recipient |-> None, amount |-> 0, asset |-> None]

SendFailure(to_address, amount, asset, error) ==
    [NoToolResult EXCEPT !.tool = "send_transaction", !.error = error,
                         !.recipient = to_address, !.amount = amount, !.asset = asset]

\* the float nan among the amounts in hundredths; no amount of the model is
\* that small a negative number
NaN == 0 - 1

\* a <= b on two floats: false when one of them is nan
float_le(a, b) == a # NaN /\ b # NaN /\ a <= b

\* NeoXTools.send_transaction; amount in hundredths or NaN, asset a str or None
\* (asset.upper() of None raises, which the handler of line 247 turns into
\* the "Transaction failed" result)
send_transaction(to_address, amount, asset) ==
    IF ~validate_address(to_address).format_valid
    THEN SendFailure(to_address, amount, asset, "Invalid recipient address format")
    ELSE IF float_le(amount, 0)
    THEN SendFailure(to_address, amount, asset, "Amount must be positive")
    ELSE IF asset = None
    THEN SendFailure(to_address, amount, asset, "Transaction failed")
    ELSE IF str_upper(asset) \notin {<<"N", "E", "O">>, <<"G", "A", "S">>}
    THEN SendFailure(to_address, amount, asset, "Unsupported asset")
    ELSE IF ~check_address_security(to_address).is_safe
    THEN [SendFailure(to_address, amount, asset, "Security alert") EXCEPT
              !.security_blocked = TRUE]
    ELSE [SendFailure(to_address, amount, str_upper(asset), "") EXCEPT
              !.success = TRUE, !.tx_hash = mock_tx_hash, !.status = "confirmed"]

\* what _fetch_real_balance may return: no answer of the RPC node, or balances
RealBalances == {"failed", "positive", "zero"}

\* NeoXTools.get_balance: success, and whether a balance is above zero
get_balance(address, real_balance) ==
    IF ~validate_address(address).format_valid
    THEN [success |-> FALSE, positive |-> FALSE, data_source |-> "validation_error"]
    ELSE IF real_balance # "failed"
    THEN [success |-> TRUE, positive |-> real_balance = "positive", data_source |-> "neo_rpc"]
    ELSE [success |-> TRUE, data_source |-> "demo_data",
          positive |-> mock_balances(address).NEO > 0 \/ mock_balances(address).GAS > 0]

\* NeoXTools.check_transaction_status: the success of the result
check_transaction_status(tx_hash) ==
    ~(tx_hash = None \/ Len(tx_hash) = 0 \/ ~StartsAt(tx_hash, 1, <<"0", "x">>)
      \/ Len(tx_hash) # 66)

\* ------------------------------------------------------------------------
\* prompts.get_contextual_response: the template that is rendered
\* ------------------------------------------------------------------------

\* the formatter testing the format before the validity
_format_address_validation_response_format_first(result) ==
    IF result.format_valid THEN "Address Format Valid but Not Found"
    ELSE IF result.is_valid THEN "Address Validation Successful"
    ELSE "Invalid Address Format"

_format_address_validation_response(result) ==
    IF result.is_valid THEN "Address Validation Successful"
    ELSE IF result.format_valid THEN "Address Format Valid but Not Found"
    ELSE "Invalid Address Format"

_format_balance_response(result) ==
    IF result.success
    THEN IF result.positive THEN "Balance Information" ELSE "Balance Information (no tokens)"
    ELSE "Balance Check Failed"

_format_transaction_response(result) ==
    IF result.success THEN "Transaction Successful!"
    ELSE IF result.security_blocked THEN "SECURITY ALERT - Transaction Blocked"
    ELSE "Transaction Failed"

_format_transaction_status_response(success) ==
    IF success THEN "Transaction Status" ELSE "Transaction Status Check Failed"

_format_security_response(result) ==
    IF result.is_malicious THEN "SECURITY ALERT - MALICIOUS ADDRESS DETECTED"
    ELSE IF result.is_safe THEN "Security Check Passed"
    ELSE "Security Check Warning"

\* ------------------------------------------------------------------------
\* NeoXBridgeAgent (src/src/agent.py)
\* ------------------------------------------------------------------------

\* a value of the JSON object the LLM answers with; "absent" is a missing key
JAbsent == [json |-> "absent", str |-> << >>, num |-> 0]
JNull == [json |-> "null", str |-> << >>, num |-> 0]
JArray == [json |-> "array", str |-> << >>, num |-> 0]
JStr(s) == [json |-> "string", str |-> s, num |-> 0]
JNum(n) == [json |-> "number", str |-> << >>, num |-> n]

\* bool(v) of Python; JArray stands for a list with an element
Truthy(v) ==
    \/ v.json = "string" /\ v.str # << >>
    \/ v.json = "number" /\ v.num # 0
    \/ v.json = "array"

\* params.get(key) or default, for an address: the str, or None
StringOrNone(v, default) == IF Truthy(v) /\ v.json = "string" THEN v.str ELSE default

\* float(amount) of _handle_send_transaction: the value in hundredths, or the
\* exception raised. The texts of the model hold digits and dots, or letters.
float_of(v) ==
    IF v.json = "number" THEN [raised |-> "none", value |-> v.num]
    ELSE IF v.json = "string"
    THEN IF str_lower(v.str) = <<"n", "a", "n">> THEN [raised |-> "none", value |-> NaN]
         ELSE IF (\A k \in 1..Len(v.str) : v.str[k] \in Digits \cup {"."}) /\ FloatAccepts(v.str)
         THEN [raised |-> "none", value |-> ParseFloat(v.str)]
         ELSE [raised |-> "ValueError", value |-> 0]
    ELSE [raised |-> "TypeError", value |-> 0]

NoParameters ==
    [address |-> JAbsent, amount |-> JAbsent, asset |-> JAbsent, recipient |-> JAbsent,
     tx_hash |-> JAbsent]

\* intent_data after _classify_intent: json is "dict" for a JSON object and
\* "list" for any other JSON value; text that is no JSON becomes the
\* general_help dict of line 147
IntentData(intent, parameters) ==
    [json |-> "dict", intent |-> intent, parameters_null |-> FALSE, parameters |-> parameters]

NoIntentData == [IntentData("", NoParameters) EXCEPT !.json = "none"]

IntentFallback == IntentData("general_help", NoParameters)

\* the extractor returning the last match
_extract_neo_address_last(message) ==
    LET hits == {i \in 1..Len(message) :
                    /\ message[i] = "N"
                    /\ WordBoundary(message, i)
                    /\ ClassRun(message, i + 1, 33, Alnum)
                    /\ WordBoundary(message, i + 34)}
        last == CHOOSE i \in hits : \A j \in hits : j <= i
    IN  IF hits = {} THEN None ELSE SubSeq(message, last, last + 33)

\* re.findall(r'\bN[A-Za-z0-9]{33}\b', message): matches[0], or None
_extract_neo_address(message) ==
    LET hits == {i \in 1..Len(message) :
                    /\ message[i] = "N"
                    /\ WordBoundary(message, i)
                    /\ ClassRun(message, i + 1, 33, Alnum)
                    /\ WordBoundary(message, i + 34)}
    IN  IF hits = {} THEN None ELSE SubSeq(message, Min(hits), Min(hits) + 33)

\* re.findall(r'0x[a-fA-F0-9]{64}', original_message): matches[0], or None
HashSearch(message) ==
    LET hits == {i \in 1..Len(message) :
                    StartsAt(message, i, <<"0", "x">>) /\ ClassRun(message, i + 2, 64, HexChars)}
    IN  IF hits = {} THEN None ELSE SubSeq(message, Min(hits), Min(hits) + 65)

\* the words of a message, the text between its spaces
WordsOf(message) ==
    LET starts == {k \in 1..Len(message) :
                      message[k] # " " /\ (k = 1 \/ message[k - 1] = " ")}
        end(i) == Min({k \in i..(Len(message) + 1) : k > Len(message) \/ message[k] = " "})
    IN  {SubSeq(message, i, end(i) - 1) : i \in starts}

_handle_address_validation(params, context) ==
    LET address == StringOrNone(params.address, context.last_address)
    IN  IF address = None THEN "Please provide a Neo address to validate"
        ELSE _format_address_validation_response(validate_address(address))

_handle_balance_check(params, context, real_balance) ==
    LET address == StringOrNone(params.address, context.last_address)
    IN  IF address = None THEN "Please provide a Neo address to check the balance"
        ELSE _format_balance_response(get_balance(address, real_balance))

\* _handle_send_transaction: the response and the result of tools.send_transaction
_handle_send_transaction(params) ==
    LET recipient == params.recipient
        amount    == params.amount
        asset     == IF params.asset.json = "absent" THEN <<"N", "E", "O">>
                     ELSE IF params.asset.json = "string" THEN params.asset.str
                     ELSE None
    IN  IF ~Truthy(recipient) \/ ~Truthy(amount)
        THEN [response |-> "To send tokens, please specify both recipient address and amount",
              tool_result |-> NoToolResult]
        ELSE LET amount_float == float_of(amount)
             IN  IF amount_float.raised = "ValueError"
                 THEN [response |-> "Invalid amount", tool_result |-> NoToolResult]
                 ELSE IF amount_float.raised = "TypeError"
                 THEN [response |-> "I encountered an error while processing your request",
                       tool_result |-> NoToolResult]
                 ELSE LET result == send_transaction(recipient.str, amount_float.value, asset)
                      IN  [response |-> _format_transaction_response(result),
                           tool_result |-> result]

_handle_transaction_check(params, original_message) ==
    LET given   == StringOrNone(params.tx_hash, None)
        tx_hash == IF given # None THEN given ELSE HashSearch(original_message)
    IN  IF tx_hash = None THEN "Please provide a transaction hash to check"
        ELSE _format_transaction_status_response(check_transaction_status(tx_hash))

\* _handle_security_check without the fallback on the context
_handle_security_check_parameters_only(params, context) ==
    LET address == StringOrNone(params.address, None)
    IN  IF address = None THEN "Please provide an address to check for security"
        ELSE _format_security_response(check_address_security(address))

_handle_security_check(params, context) ==
    LET address == StringOrNone(params.address, context.last_address)
    IN  IF address = None THEN "Please provide an address to check for security"
        ELSE _format_security_response(check_address_security(address))

\* _execute_intent: the response and the result of tools.send_transaction.
\* parameters: null makes params.get raise inside the try of line 158.
_execute_intent(intent_data, original_message, context, real_balance) ==
    LET intent == intent_data.intent
        params == intent_data.parameters
        said(r) == [response |-> r, tool_result |-> NoToolResult]
    IN  IF intent_data.parameters_null
             /\ intent \in {"validate_address", "check_balance", "send_transaction",
                            "check_transaction", "security_check"}
        THEN said("I encountered an error while processing your request")
        ELSE IF intent = "validate_address"
        THEN said(_handle_address_validation(params, context))
        ELSE IF intent = "check_balance"
        THEN said(_handle_balance_check(params, context, real_balance))
        ELSE IF intent = "send_transaction"
        THEN _handle_send_transaction(params)
        ELSE IF intent = "check_transaction"
        THEN said(_handle_transaction_check(params, original_message))
        ELSE IF intent = "security_check"
        THEN said(_handle_security_check(params, context))
        ELSE said("LLM text")

\* ------------------------------------------------------------------------
\* CryptoPriceMonitor (security_and_analysis_tools.py)
\* ------------------------------------------------------------------------

\* self.cache_expiry, in seconds
cache_expiry == 60

SecondsPerDay == 86400

\* Optional[float] None, kept apart from every price (prices are in hundredths)
PriceNone == 0 - 1

\* Optional[datetime] None, kept apart from every time (times are in seconds)
NoTime == 0 - 1

\* (now - timestamp).seconds: a timedelta is normalised to days, seconds and
\* microseconds, and .seconds is the part below one day
timedelta_seconds(now, timestamp) == (now - timestamp) % SecondsPerDay

\* f"{symbol}_{vs_currency}" with the default vs_currency
cache_key(symbol) == symbol \o <<"_", "u", "s", "d">>

\* a key of price_cache that was never stored
NoCacheEntry == [present |-> FALSE, price |-> PriceNone, timestamp |-> NoTime]

\* get_token_price(symbol) called at now. fetched is what the request to
\* CoinGecko ends in if it is made: the price of the reply, or PriceNone (an
\* exception, a status other than 200, or the symbol missing from the reply).
\* Returns the cache afterwards, the value returned, and whether a request was made.
get_token_price(price_cache, now, symbol, fetched) ==
    LET key == cache_key(symbol)
        cached_data == price_cache[key]
    IN  IF cached_data.present
           /\ timedelta_seconds(now, cached_data.timestamp) < cache_expiry
        THEN [price_cache |-> price_cache, price |-> cached_data.price, requested |-> FALSE]
        ELSE IF fetched = PriceNone
        THEN [price_cache |-> price_cache, price |-> PriceNone, requested |-> TRUE]
        ELSE [price_cache |-> [price_cache EXCEPT
                                  ![key] = [present |-> TRUE, price |-> fetched,
                                            timestamp |-> now]],
              price |-> fetched, requested |-> TRUE]

\* create_price_alert: the alert list afterwards; id stands for the identity
\* of the PriceAlert object created
create_price_alert(alerts, id, now, symbol, target_price, condition) ==
    Append(alerts, [id |-> id, symbol |-> str_upper(symbol), target_price |-> target_price,
                    condition |-> str_lower(condition), active |-> TRUE,
                    created_at |-> now, triggered_at |-> NoTime])

\* check_alerts from the i-th alert on. st: the alerts and the cache so far,
\* the alerts triggered so far, and for every alert passed the current_price
\* read for it (PriceNone if it was skipped); fetched[i] is what the request
\* for the i-th alert ends in if it is made
RECURSIVE check_alerts_from(_, _, _, _)
check_alerts_from(st, now, fetched, i) ==
    IF i > Len(st.alerts) THEN st
    ELSE LET alert == st.alerts[i]
         IN  IF ~alert.active \/ alert.triggered_at # NoTime
             THEN check_alerts_from([st EXCEPT !.prices = Append(@, PriceNone)],
                                    now, fetched, i + 1)
             ELSE LET got == get_token_price(st.price_cache, now, alert.symbol, fetched[i])
                      current_price == got.price
                      st1 == [st EXCEPT !.price_cache = got.price_cache,
                                        !.prices = Append(@, current_price),
                                        !.requests = @ + (IF got.requested THEN 1 ELSE 0)]
                      should_trigger ==
                          \/ alert.condition = <<"a", "b", "o", "v", "e">> /\ current_price >= alert.target_price
                          \/ alert.condition = <<"b", "e", "l", "o", "w">> /\ current_price <= alert.target_price
                      fired == [alert EXCEPT !.triggered_at = now, !.active = FALSE]
                  IN  IF current_price = PriceNone
                      THEN check_alerts_from(st1, now, fetched, i + 1)
                      ELSE IF should_trigger
                      THEN check_alerts_from(
                               [st1 EXCEPT !.alerts[i] = fired,
                                           !.triggered_alerts = Append(@, fired)],
                               now, fetched, i + 1)
                      ELSE check_alerts_from(st1, now, fetched, i + 1)

\* check_alerts leaving the alerts it triggers active
check_alerts_keeps_active(alerts, price_cache, now, fetched) ==
    LET out == check_alerts_from([alerts |-> alerts, price_cache |-> price_cache,
                                  triggered_alerts |-> << >>, prices |-> << >>,
                                  requests |-> 0],
                                 now, fetched, 1)
    IN  [out EXCEPT !.alerts = [i \in 1..Len(out.alerts) |->
                                   [out.alerts[i] EXCEPT !.active = TRUE]]]

check_alerts(alerts, price_cache, now, fetched) ==
    check_alerts_from([alerts |-> alerts, price_cache |-> price_cache,
                       triggered_alerts |-> << >>, prices |-> << >>, requests |-> 0],
                      now, fetched, 1)

get_active_alerts(alerts) == SelectSeq(alerts, LAMBDA alert : alert.active)

\* remove_alert: the first alert of that symbol and target is deleted
remove_alert(alerts, symbol, target_price) ==
    LET hits == {i \in 1..Len(alerts) : /\ alerts[i].symbol = str_upper(symbol)
                                        /\ alerts[i].target_price = target_price}
        i == Min(hits)
    IN  IF hits = {}
        THEN [alerts |-> alerts, removed |-> FALSE]
        ELSE [alerts |-> SubSeq(alerts, 1, i - 1) \o SubSeq(alerts, i + 1, Len(alerts)),
              removed |-> TRUE]

\* the keys price_cache comes to hold: the symbol as a caller wrote it, and as
\* create_price_alert stored it
CacheKeys == {cache_key(<<"n", "e", "o">>), cache_key(<<"N", "E", "O">>)}

\* ------------------------------------------------------------------------
\* NeoWallet (src/src/wallet.py)
\* ------------------------------------------------------------------------

\* a private key of 64 hexadecimal characters, and 64 characters that are not
RawHexKey == [k \in 1..64 |-> IF k % 2 = 0 THEN "a" ELSE "1"]

NotHexKey == [k \in 1..64 |-> "g"]

\* _derive_address_from_private_key: the address of the neo3 library, the one
\* of the manual derivation when the library is missing, or the fallback
\* 'N' and 32 characters of a hash when the derivation raises; always a string
_derive_address_from_private_key(private_key, derivation) ==
    IF derivation = "neo3" THEN AccountAddress(private_key)
    ELSE IF derivation = "manual" THEN AddrNhGo
    ELSE <<"N">> \o [k \in 1..32 |-> "0"]

\* set_private_key storing the key before it is validated
set_private_key_stores_first(wallet, private_key, known_address, derivation) ==
    IF private_key = None \/ private_key = << >> \/ Len(private_key) # 64
       \/ ~ClassRun(private_key, 1, 64, HexChars)
    THEN [wallet |-> [wallet EXCEPT !.private_key = private_key], ok |-> FALSE]
    ELSE [wallet |-> [private_key |-> private_key,
                      address |-> IF known_address # None /\ known_address # << >>
                                  THEN known_address
                                  ELSE _derive_address_from_private_key(private_key,
                                                                        derivation)],
          ok |-> TRUE]

\* set_private_key: the wallet afterwards and the value returned
set_private_key(wallet, private_key, known_address, derivation) ==
    IF private_key = None \/ private_key = << >> \/ Len(private_key) # 64
    THEN [wallet |-> wallet, ok |-> FALSE]
    ELSE IF ~ClassRun(private_key, 1, 64, HexChars)
    THEN [wallet |-> wallet, ok |-> FALSE]
    ELSE [wallet |-> [private_key |-> private_key,
                      address |-> IF known_address # None /\ known_address # << >>
                                  THEN known_address
                                  ELSE _derive_address_from_private_key(private_key,
                                                                        derivation)],
          ok |-> TRUE]

is_wallet_loaded(wallet) == wallet.private_key # None /\ wallet.address # None

\* sign_transaction(transaction_data) for a dict: the result returned
sign_transaction(wallet) ==
    IF ~is_wallet_loaded(wallet)
    THEN [success |-> FALSE, error |-> "Wallet not loaded with private key", signer |-> None]
    ELSE [success |-> TRUE, error |-> "", signer |-> wallet.address]

\* clear_wallet: the wallet afterwards
clear_wallet(wallet) == [private_key |-> None, address |-> None]

\* ------------------------------------------------------------------------
\* NeoXBridgeComprehensiveAgent: state and process_message
\* ------------------------------------------------------------------------

VARIABLES
    NEO3_AVAILABLE,        \* the neo3 library was importable
    wallet_manager,        \* agent.wallet_manager
    price_alerts,          \* agent.price_monitor.alerts
    conversation_history,  \* agent.conversation_history
    user_input,            \* the message read by main() and not yet processed, or None
    intent,                \* what parse_intent returned for the last message
    response,              \* what process_message returned for the last message
    security_call,         \* the last call of the security suite and its result
    api_call,              \* the last NeoAPIClient operation of the last message
    sender_balance,        \* what get_balance returned to the last send, if it was read
    bridge_history,        \* NeoXBridgeAgent.conversation_history
    context,               \* NeoXBridgeAgent.context
    user_message,          \* the message NeoXBridgeAgent is to process, or None
    intent_data,           \* what _classify_intent returned for the last message
    tool_result,           \* what tools.send_transaction returned for the last message
    bridge_response,       \* what NeoXBridgeAgent.process_message returned
    passed_checks,         \* comprehensive_security_check: the sub-checks passed
    total_checks,          \* comprehensive_security_check: the sub-checks made
    security_result,       \* the SecurityResult computed from the two, or NoSecurityResult
    cli,                   \* the entry point running: "main", "app", or "none"
    loop,                  \* its conversation loop: "starting", "awaiting" or "ended"
    last_input,            \* what the last input() of the loop did
    agent_called,          \* the last iteration called the agent's process_message
    reported,              \* what the last iteration printed
    environ,               \* the environment variables the program reads its keys from
    checker_results,       \* what ComprehensiveSecurityChecker.check_address_security returned
    tool_call,             \* a direct call of NeoXTools.send_transaction and its result
    price_monitor,         \* a CryptoPriceMonitor: its alerts and its price_cache
    clock,                 \* datetime.now(), in seconds
    monitor_call,          \* the last call of a CryptoPriceMonitor method and its result
    neo_wallet,            \* a NeoWallet: its private_key and its address
    wallet_call            \* the last call of a NeoWallet method and its result

comprehensive_vars ==
    <<NEO3_AVAILABLE, wallet_manager, price_alerts, conversation_history, user_input,
      intent, response, security_call, api_call, sender_balance>>

bridge_vars ==
    <<bridge_history, context, user_message, intent_data, tool_result, bridge_response>>

check_vars == <<passed_checks, total_checks, security_result>>

cli_vars == <<cli, loop, last_input, agent_called, reported>>

monitor_vars == <<price_monitor, clock, monitor_call>>

wallet_vars == <<neo_wallet, wallet_call>>

component_vars == <<environ, checker_results, tool_call, monitor_vars, wallet_vars>>

vars == <<comprehensive_vars, bridge_vars, check_vars, cli_vars, component_vars>>

NoIntent == Intent("")

NoSecurityCall ==
    [made |-> FALSE, target |-> None, target_type |-> None, reply1 |-> ReplyClean,
     reply2 |-> ReplyClean, result |-> SecurityVerdict(0, 0)]

SecurityCall(target, target_type, reply1, reply2) ==
    [made |-> TRUE, target |-> target, target_type |-> target_type, reply1 |-> reply1,
     reply2 |-> reply2,
     result |-> comprehensive_security_check(target_type, reply1, reply2)]

\* the balances wallet_manager.get_balance() may return, in hundredths
BalanceValues == {[NEO |-> 0, GAS |-> 0], [NEO |-> 500, GAS |-> 0], [NEO |-> 500, GAS |-> 1050],
     [NEO |-> 0, GAS |-> 1100]}

\* no balance read
NoBalance == [read |-> FALSE, NEO |-> 0, GAS |-> 0]

ReadBalance(balances) == [read |-> TRUE, NEO |-> balances.NEO, GAS |-> balances.GAS]

\* what the collaborators do during one process_message
NoEnv ==
    [library_accepts |-> TRUE, balances |-> [NEO |-> 0, GAS |-> 0],
     reply1 |-> ReplyClean, reply2 |-> ReplyClean, rpc1 |-> "ok", rpc2 |-> "ok"]

\* the collaborators an intent type reaches
EnvFor(type) ==
    IF type = "wallet_operations"
    THEN {[NoEnv EXCEPT !.library_accepts = b] : b \in BOOLEAN}
    ELSE IF type = "send_transaction"
    THEN {[NoEnv EXCEPT !.balances = b, !.reply1 = r] :
            b \in BalanceValues, r \in GoPlusReplies}
    ELSE IF type = "security_analysis"
    THEN {[NoEnv EXCEPT !.reply1 = r1, !.reply2 = r2] :
            r1 \in GoPlusReplies, r2 \in {ReplyClean, ReplyThrows}}
    ELSE IF type \in {"blockchain_data", "governance_info"}
    THEN {[NoEnv EXCEPT !.rpc1 = r1, !.rpc2 = r2] : r1 \in RpcOutcomes, r2 \in {"ok", "null"}}
    ELSE IF type = "nft_operations"
    THEN {[NoEnv EXCEPT !.rpc1 = r1] : r1 \in RpcOutcomes}
    ELSE {NoEnv}

\* add_to_history
add_to_history(history, role, content) ==
    Append(history, [role |-> role, content |-> content])

\* the routing of process_message: everything the handler of the intent
\* changes and returns
Dispatch(it, message, wm, alerts, neo3_available, env) ==
    LET same == [wm |-> wm, alerts |-> alerts, call |-> NoSecurityCall, balance |-> NoBalance,
                 api |-> last_api_call(it, message, wm, env.rpc1, env.rpc2)]
    IN  IF it.type = "wallet_operations"
        THEN LET h == handle_wallet_operations(it, wm, neo3_available, env.library_accepts)
             IN  [same EXCEPT !.wm = h.wm] @@ [response |-> h.response]
        ELSE IF it.type = "balance_check"
        THEN same @@ [response |-> handle_balance_operations(it, wm)]
        ELSE IF it.type = "security_analysis"
        THEN LET r == handle_security_analysis(it)
             IN  [same EXCEPT !.call =
                        IF r.action_type = "security_analysis"
                        THEN SecurityCall(it.target, it.target_type, env.reply1, env.reply2)
                        ELSE NoSecurityCall]
                 @@ [response |-> r]
        ELSE IF it.type = "blockchain_data"
        THEN same @@ [response |-> handle_blockchain_data(message, env.rpc1, env.rpc2)]
        ELSE IF it.type = "nft_operations"
        THEN same @@ [response |-> handle_nft_operations(it, wm, env.rpc1)]
        ELSE IF it.type = "price_monitoring"
        THEN LET h == handle_price_monitoring(message, alerts)
             IN  [same EXCEPT !.alerts = h.alerts] @@ [response |-> h.response]
        ELSE IF it.type = "send_transaction"
        THEN LET call == SecurityCall(it.recipient, <<"a", "d", "d", "r", "e", "s", "s">>, env.reply1, env.reply2)
                 h    == handle_send_transaction(it, wm, env.balances, call.result)
             IN  [same EXCEPT !.call = IF h.checked THEN call ELSE NoSecurityCall,
                              !.balance = IF h.read THEN ReadBalance(env.balances)
                                          ELSE NoBalance]
                 @@ [response |-> h.response]
        ELSE IF it.type = "bulk_transaction"
        THEN same @@ [response |-> handle_bulk_transaction(wm)]
        ELSE IF it.type = "transaction_help"
        THEN same @@ [response |-> get_transaction_help_response]
        ELSE IF it.type = "transaction_analysis"
        THEN same @@ [response |-> handle_transaction_analysis(wm)]
        ELSE IF it.type = "governance_info"
        THEN same @@ [response |-> handle_governance_info(env.rpc1, env.rpc2)]
        ELSE IF it.type = "help"
        THEN same @@ [response |-> get_help_response]
        ELSE same @@ [response |-> handle_general_query]

\* NeoXBridgeComprehensiveAgent.process_message
process_message(message) ==
    \E it \in {parse_intent(message)} :
      \E env \in EnvFor(it.type) :
        \E out \in {Dispatch(it, message, wallet_manager, price_alerts,
                             NEO3_AVAILABLE, env)} :
             /\ conversation_history' =
                    add_to_history(conversation_history, "user", message)
             /\ intent' = it
             /\ wallet_manager' = out.wm
             /\ price_alerts' = out.alerts
             /\ response' = out.response
             /\ security_call' = out.call
             /\ api_call' = out.api
             /\ sender_balance' = out.balance

\* main() passes the message read to process_message
ProcessMessage ==
    /\ user_input # None
    /\ process_message(user_input)
    /\ user_input' = None
    /\ UNCHANGED <<NEO3_AVAILABLE, bridge_vars, check_vars, cli_vars, component_vars>>

\* the wallet managers NeoXBridgeComprehensiveAgent.__init__ can leave:
\* load_from_env with PRIVATE_KEY unset or set
InitialWallets(neo3_available) ==
    {WalletInit}
    \cup {load_private_key(WalletInit, neo3_available, k, b).wm :
            k \in {KeyWif}, b \in BOOLEAN}

\* no security check being computed
NoSecurityResult == [computed |-> FALSE]

\* the counters of comprehensive_security_check before any target is checked
InitCheck ==
    /\ passed_checks = 0
    /\ total_checks = 0
    /\ security_result = NoSecurityResult

\* no key set in the environment
NoEnviron == [OPENAI_API_KEY |-> None, GO_PLUS_LABS_APP_KEY |-> None, GOPLUS_API_KEY |-> None]

NoCheckerResults ==
    [made |-> FALSE, address |-> None, env |-> NoEnviron, format |-> "", goplus |-> "",
     is_safe |-> TRUE, risk_level |-> "low"]

NoToolCall == [made |-> FALSE, to_address |-> None, amount |-> 0, asset |-> None,
               result |-> NoToolResult]

\* CryptoPriceMonitor.__init__: no alerts, nothing cached; next_id is the
\* identity the next PriceAlert object gets
NoMonitor ==
    [alerts |-> << >>, price_cache |-> [key \in CacheKeys |-> NoCacheEntry], next_id |-> 1]

NoMonitorCall ==
    [op |-> "none", number |-> 0, requested |-> FALSE, age |-> NoTime, fetched |-> PriceNone,
     price |-> PriceNone, triggered_alerts |-> << >>, prices |-> << >>, removed |-> FALSE]

InitMonitor ==
    /\ price_monitor = NoMonitor
    /\ clock = 0
    /\ monitor_call = NoMonitorCall

\* NeoWallet.__init__
NoWallet == [private_key |-> None, address |-> None]

\* log: the methods called so far and whether each succeeded
NoWalletCall == [op |-> "none", returned |-> FALSE, error |-> "", signer |-> None, log |-> << >>]

InitWallet ==
    /\ neo_wallet = NoWallet
    /\ wallet_call = NoWalletCall

\* the components outside the agents, not in use
InitComponents ==
    /\ environ = NoEnviron
    /\ checker_results = NoCheckerResults
    /\ tool_call = NoToolCall
    /\ InitMonitor
    /\ InitWallet

\* nothing read by a conversation loop
NoInput == [kind |-> "none", line |-> None]

\* no conversation loop running
InitCli ==
    /\ cli = "none"
    /\ loop = "ended"
    /\ last_input = NoInput
    /\ agent_called = FALSE
    /\ reported = ""

\* NeoXBridgeAgent.__init__
InitBridgeAgent ==
    /\ bridge_history = << >>
    /\ context = [last_address |-> None, pending_transaction |-> None]
    /\ user_message = None
    /\ intent_data = NoIntentData
    /\ tool_result = NoToolResult
    /\ bridge_response = ""

\* NeoXBridgeComprehensiveAgent.__init__
InitAgent ==
    /\ NEO3_AVAILABLE \in BOOLEAN
    /\ wallet_manager \in InitialWallets(NEO3_AVAILABLE)
    /\ price_alerts = << >>
    /\ conversation_history = << >>
    /\ intent = NoIntent
    /\ response = NoResponse
    /\ security_call = NoSecurityCall
    /\ api_call = NoApiCall
    /\ sender_balance = NoBalance

\* ---- the router on one message ------------------------------------------

InitRouter == InitAgent /\ InitBridgeAgent /\ InitCheck /\ InitCli /\ InitComponents
    /\ user_input \in RouterMessages

NextRouter == ProcessMessage

SpecRouter == InitRouter /\ [][NextRouter]_vars

\* ---- a conversation ------------------------------------------------------

\* the bound on the messages of a conversation
MaxTurns == 2

TokenContract == <<"0", "x", "1", "2", "3", "4", "5", "6", "7", "8", "9", "0", "a", "b", "c", "d", "e", "f", "1", "2", "3", "4", "5", "6", "7", "8", "9", "0", "a", "b", "c", "d", "e", "f", "1", "2", "3", "4", "5", "6", "7", "8">>

ConversationMessages ==
    {JoinWords(<<<<"s", "e", "n", "d", " ", "5", " ", "N", "E", "O", " ", "t", "o">>, AddrNiEt>>),
     JoinWords(<<<<"c", "o", "n", "f", "i", "r", "m", " ", "s", "e", "n", "d", " ", "5", " ", "N", "E", "O", " ", "t", "o">>, AddrNiEt>>),
     JoinWords(<<<<"c", "o", "n", "f", "i", "r", "m", " ", "s", "e", "n", "d", " ", "5", ".", "0", " ", "N", "E", "O", " ", "t", "o">>, str_lower(AddrNiEt)>>),
     JoinWords(<<<<"s", "e", "n", "d", " ", "1", "0", ".", "5", " ", "G", "A", "S", " ", "t", "o">>, AddrNhGo>>),
     JoinWords(<<<<"l", "o", "a", "d", " ", "w", "a", "l", "l", "e", "t">>, KeyWif>>),
     JoinWords(<<<<"l", "o", "a", "d", " ", "w", "a", "l", "l", "e", "t">>, KeyHex>>),
     JoinWords(<<<<"c", "h", "e", "c", "k", " ", "a", "d", "d", "r", "e", "s", "s">>, AddrNUVP>>),
     JoinWords(<<<<"a", "n", "a", "l", "y", "z", "e", " ", "t", "o", "k", "e", "n">>, TokenContract>>),
     <<"s", "e", "c", "u", "r", "i", "t", "y", " ", "c", "h", "e", "c", "k", " ", "h", "t", "t", "p", "s", ":", "/", "/", "e", "x", "a", "m", "p", "l", "e", ".", "c", "o", "m">>,
     <<"c", "r", "e", "a", "t", "e", " ", "p", "r", "i", "c", "e", " ", "a", "l", "e", "r", "t", " ", "N", "E", "O", " ", "a", "b", "o", "v", "e", " ", "5", "0">>,
     <<"r", "e", "c", "e", "n", "t", " ", "b", "l", "o", "c", "k", "s">>,
     <<"h", "e", "l", "p">>}

\* main(): input() returns the next message
ReadInput ==
    /\ user_input = None
    /\ Len(conversation_history) < MaxTurns
    /\ \E m \in ConversationMessages : user_input' = m
    /\ UNCHANGED <<NEO3_AVAILABLE, wallet_manager, price_alerts, conversation_history,
                   intent, response, security_call, api_call, sender_balance,
                   bridge_vars, check_vars, cli_vars, component_vars>>

Init == InitAgent /\ InitBridgeAgent /\ InitCheck /\ InitCli /\ InitComponents
    /\ user_input = None

Next == ReadInput \/ ProcessMessage

Spec == Init /\ [][Next]_vars


\* ---- a conversation with NeoXBridgeAgent ----------------------------------

\* the bound on the messages of a conversation with NeoXBridgeAgent
MaxBridgeTurns == 2

TxHash == <<"0", "x">> \o [k \in 1..64 |-> "a"]

BridgeMessages ==
    {JoinWords(<<<<"S", "e", "n", "d", " ", "5", " ", "N", "E", "O", " ", "t", "o">>, AddrNiEt>>),
     JoinWords(<<<<"c", "o", "n", "f", "i", "r", "m", " ", "s", "e", "n", "d", " ", "5", " ", "N", "E", "O", " ", "t", "o">>, AddrNiEt>>),
     <<"c", "a", "n", "c", "e", "l">>,
     JoinWords(<<<<"s", "e", "n", "d", " ", "1", "0", ".", "5", " ", "g", "a", "s", " ", "t", "o">>, AddrMalicious1>>),
     JoinWords(<<<<"S", "e", "n", "d", " ", "t", "e", "n", " ", "B", "T", "C", " ", "t", "o">>, AddrNVBy>>),
     JoinWords(<<<<"I", "s">>, AddrNUVP, <<"s", "a", "f", "e", " ", "?">>>>),
     JoinWords(<<<<"I", "s">>, AddrNhGo, <<"o", "r">>, AddrNUVP, <<"s", "a", "f", "e", " ", "?">>>>),
     JoinWords(<<<<"c", "h", "e", "c", "k", " ", "t", "r", "a", "n", "s", "a", "c", "t", "i", "o", "n">>, TxHash>>),
     <<"H", "e", "l", "l", "o", "!", " ", "I", "'", "m", " ", "r", "e", "a", "d", "y", " ", "t", "o", " ", "h", "e", "l", "p", " ", "w", "i", "t", "h", " ", "N", "e", "o", "X", " ", "b", "l", "o", "c", "k", "c", "h", "a", "i", "n", " ", "o", "p", "e", "r", "a", "t", "i", "o", "n", "s", ".">>}

\* the intents the prompt of _classify_intent lists, "" for a missing key and
\* one intent the prompt does not list
LLMIntents ==
    {"validate_address", "check_balance", "send_transaction", "check_transaction",
     "general_help", "security_check", "confirm_transaction", ""}

NumericWord(w) == (\A k \in 1..Len(w) : w[k] \in Digits \cup {"."}) /\ FloatAccepts(w)

\* the parameters the LLM may extract for an intent: words of the message, in
\* the JSON types the prompt leaves open
LLMParameters(llm_intent, message) ==
    LET words     == WordsOf(message)
        addresses == {JAbsent} \cup {JStr(w) : w \in {x \in words : x[1] = "N" /\ Len(x) > 30}}
        amounts   == {JAbsent, JArray}
                     \cup {JStr(w) : w \in {x \in words : NumericWord(x) \/ x = <<"t", "e", "n">>}}
                     \cup {JNum(ParseFloat(w)) : w \in {x \in words : NumericWord(x)}}
        assets    == {JAbsent, JNull}
                     \cup {JStr(w) : w \in {x \in words : str_upper(x) \in {<<"N", "E", "O">>, <<"G", "A", "S">>, <<"B", "T", "C">>}}}
        hashes    == {JAbsent} \cup {JStr(w) : w \in {x \in words : StartsAt(x, 1, <<"0", "x">>)}}
    IN  IF llm_intent = "send_transaction"
        THEN {[NoParameters EXCEPT !.recipient = r, !.amount = a, !.asset = s] :
                 r \in addresses, a \in amounts, s \in assets}
        ELSE IF llm_intent \in {"validate_address", "check_balance", "security_check"}
        THEN {[NoParameters EXCEPT !.address = a] : a \in addresses}
        ELSE IF llm_intent = "check_transaction"
        THEN {[NoParameters EXCEPT !.tx_hash = h] : h \in hashes}
        ELSE {NoParameters}

\* _classify_intent: a JSON object, another JSON value, or the fallback of
\* line 147 when the answer of the LLM is no JSON
_classify_intent(message) ==
    {IntentFallback, [NoIntentData EXCEPT !.json = "list"]}
    \cup UNION {{IntentData(i, p) : p \in LLMParameters(i, message)} : i \in LLMIntents}
    \cup {[IntentData("send_transaction", NoParameters) EXCEPT !.parameters_null = TRUE]}

\* main.py: the next message of the user
BridgeReadInput ==
    /\ user_message = None
    /\ Len(SelectSeq(bridge_history, LAMBDA e : e.role = "user")) < MaxBridgeTurns
    /\ \E m \in BridgeMessages : user_message' = m
    /\ UNCHANGED <<comprehensive_vars, bridge_history, context, intent_data, tool_result,
                   bridge_response, check_vars, cli_vars, component_vars>>

\* NeoXBridgeAgent.process_message
agent_process_message(message) ==
    \E data \in _classify_intent(message) :
         \E real_balance \in (IF data.intent = "check_balance" THEN RealBalances
                              ELSE {"failed"}) :
           LET with_user == Append(bridge_history,
                                   [role |-> "user", content |-> message])
               extracted_address == _extract_neo_address(message)
               context1 == IF extracted_address # None
                           THEN [context EXCEPT !.last_address = extracted_address]
                           ELSE context
           IN  /\ context' = context1
               /\ intent_data' = data
               /\ IF data.json = "list"
                  THEN /\ bridge_history' = with_user
                       /\ tool_result' = NoToolResult
                       /\ bridge_response' = "I apologize, but I encountered an error"
                  ELSE \E out \in {_execute_intent(data, message, context1,
                                                   real_balance)} :
                         /\ bridge_history' =
                                Append(with_user,
                                       [role |-> "assistant", content |-> out.response])
                         /\ tool_result' = out.tool_result
                         /\ bridge_response' = out.response

\* main.py passes the message read to process_message
BridgeProcessMessage ==
    /\ user_message # None
    /\ agent_process_message(user_message)
    /\ user_message' = None
    /\ UNCHANGED <<comprehensive_vars, check_vars, cli_vars, component_vars>>

\* the comprehensive agent idle beside the conversation with NeoXBridgeAgent
InitBridge ==
    /\ InitBridgeAgent
    /\ NEO3_AVAILABLE = TRUE
    /\ wallet_manager = WalletInit
    /\ price_alerts = << >>
    /\ conversation_history = << >>
    /\ intent = NoIntent
    /\ response = NoResponse
    /\ security_call = NoSecurityCall
    /\ api_call = NoApiCall
    /\ sender_balance = NoBalance
    /\ user_input = None
    /\ InitCheck
    /\ InitCli
    /\ InitComponents

NextBridge == BridgeReadInput \/ BridgeProcessMessage

SpecBridge == InitBridge /\ [][NextBridge]_vars


\* ---- the verdict of comprehensive_security_check ---------------------------

\* the bound on the sub-checks of one security check
MaxChecks == 20

\* the counters when the sub-checks of a target are done
InitVerdict ==
    /\ InitBridgeAgent
    /\ NEO3_AVAILABLE = TRUE
    /\ wallet_manager = WalletInit
    /\ price_alerts = << >>
    /\ conversation_history = << >>
    /\ intent = NoIntent
    /\ response = NoResponse
    /\ security_call = NoSecurityCall
    /\ api_call = NoApiCall
    /\ sender_balance = NoBalance
    /\ user_input = None
    /\ total_checks \in 0..MaxChecks
    /\ passed_checks \in 0..total_checks
    /\ security_result = NoSecurityResult
    /\ InitCli
    /\ InitComponents

\* the tail of comprehensive_security_check: the SecurityResult of the counters
ComputeVerdict ==
    /\ ~security_result.computed
    /\ security_result' = [computed |-> TRUE] @@ SecurityVerdict(passed_checks, total_checks)
    /\ UNCHANGED <<comprehensive_vars, bridge_vars, passed_checks, total_checks, cli_vars,
                   component_vars>>

NextVerdict == ComputeVerdict

SpecVerdict == InitVerdict /\ [][NextVerdict]_vars


\* ---- the conversation loops of the two entry points ------------------------

\* the bound on the messages a conversation loop passes to its agent
MaxCliTurns == 2

WelcomeMessage == <<"H", "e", "l", "l", "o", "!", " ", "I", "'", "m", " ", "r", "e", "a", "d", "y", " ", "t", "o", " ", "h", "e", "l", "p", " ", "w", "i", "t", "h", " ", "N", "e", "o", "X", " ", "b", "l", "o", "c", "k", "c", "h", "a", "i", "n", " ", "o", "p", "e", "r", "a", "t", "i", "o", "n", "s", ".">>

\* the lines input() returns, stripped
CliLines ==
    {<<"h", "e", "l", "p">>, <<"s", "t", "a", "t", "u", "s">>, <<"e", "x", "a", "m", "p", "l", "e", "s">>, <<"q", "u", "i", "t">>, <<"e", "x", "i", "t">>, <<"b", "y", "e">>, <<"g", "o", "o", "d", "b", "y", "e">>, <<"Q", "U", "I", "T">>, << >>,
     <<"r", "e", "c", "e", "n", "t", " ", "b", "l", "o", "c", "k", "s">>, <<"c", "a", "n", "c", "e", "l">>}

\* what input() does: it returns a line, raises EOFError or raises
\* KeyboardInterrupt
InputEvents ==
    {[kind |-> "line", line |-> l] : l \in CliLines}
    \cup {[kind |-> "eof", line |-> None], [kind |-> "interrupt", line |-> None]}

\* the entry point started and its agent constructed
InitLoop ==
    /\ InitAgent
    /\ InitBridgeAgent
    /\ InitCheck
    /\ InitComponents
    /\ user_input = None
    /\ cli \in {"main", "app"}
    /\ cli = "app" => (NEO3_AVAILABLE /\ wallet_manager = WalletInit)
    /\ loop = IF cli = "app" THEN "starting" ELSE "awaiting"
    /\ last_input = NoInput
    /\ agent_called = FALSE
    /\ reported = ""

\* one iteration of the loop of main() in neoxbridge_comprehensive_agent.py
MainIteration ==
    /\ cli = "main"
    /\ loop = "awaiting"
    /\ Len(conversation_history) < MaxCliTurns
    /\ \E ev \in InputEvents :
         /\ last_input' = ev
         /\ IF ev.kind = "interrupt"
            THEN /\ loop' = "ended"
                 /\ agent_called' = FALSE
                 /\ reported' = "session_ended"
                 /\ UNCHANGED comprehensive_vars
            ELSE IF ev.kind = "eof"
            THEN /\ loop' = "awaiting"
                 /\ agent_called' = FALSE
                 /\ reported' = "system_error"
                 /\ UNCHANGED comprehensive_vars
            ELSE IF str_lower(ev.line) \in {<<"q", "u", "i", "t">>, <<"e", "x", "i", "t">>, <<"b", "y", "e">>}
            THEN /\ loop' = "ended"
                 /\ agent_called' = FALSE
                 /\ reported' = "goodbye"
                 /\ UNCHANGED comprehensive_vars
            ELSE IF ev.line = << >>
            THEN /\ loop' = "awaiting"
                 /\ agent_called' = FALSE
                 /\ reported' = ""
                 /\ UNCHANGED comprehensive_vars
            ELSE /\ process_message(ev.line)
                 /\ loop' = "awaiting"
                 /\ agent_called' = TRUE
                 /\ reported' = IF response'.returned THEN "response" ELSE "system_error"
                 /\ UNCHANGED <<NEO3_AVAILABLE, user_input>>
    /\ UNCHANGED <<cli, bridge_vars, check_vars, component_vars>>

\* ui.get_user_input
get_user_input(ev) == IF ev.kind = "line" THEN ev.line ELSE <<"q", "u", "i", "t">>

\* the special commands with status and info answered as quit
handle_special_commands_status_quits(line) ==
    LET user_input_lower == str_lower(line)
    IN  IF user_input_lower \in {<<"q", "u", "i", "t">>, <<"e", "x", "i", "t">>, <<"b", "y", "e">>, <<"g", "o", "o", "d", "b", "y", "e">>, <<"s", "t", "a", "t", "u", "s">>, <<"i", "n", "f", "o">>}
        THEN [is_special |-> TRUE, special_response |-> "quit"]
        ELSE IF user_input_lower \in {<<"h", "e", "l", "p">>, <<"c", "o", "m", "m", "a", "n", "d", "s">>}
        THEN [is_special |-> TRUE, special_response |-> "help"]
        ELSE IF user_input_lower \in {<<"e", "x", "a", "m", "p", "l", "e", "s">>, <<"d", "e", "m", "o">>}
        THEN [is_special |-> TRUE, special_response |-> "examples"]
        ELSE [is_special |-> FALSE, special_response |-> ""]

\* NeoXBridgeApp.handle_special_commands: is_special and what it answers
handle_special_commands(line) ==
    LET user_input_lower == str_lower(line)
    IN  IF user_input_lower \in {<<"q", "u", "i", "t">>, <<"e", "x", "i", "t">>, <<"b", "y", "e">>, <<"g", "o", "o", "d", "b", "y", "e">>}
        THEN [is_special |-> TRUE, special_response |-> "quit"]
        ELSE IF user_input_lower \in {<<"h", "e", "l", "p">>, <<"c", "o", "m", "m", "a", "n", "d", "s">>}
        THEN [is_special |-> TRUE, special_response |-> "help"]
        ELSE IF user_input_lower \in {<<"s", "t", "a", "t", "u", "s">>, <<"i", "n", "f", "o">>}
        THEN [is_special |-> TRUE, special_response |-> "status"]
        ELSE IF user_input_lower \in {<<"e", "x", "a", "m", "p", "l", "e", "s">>, <<"d", "e", "m", "o">>}
        THEN [is_special |-> TRUE, special_response |-> "examples"]
        ELSE [is_special |-> FALSE, special_response |-> ""]

\* NeoXBridgeApp.run: the welcome message passed to the agent before the loop
AppWelcome ==
    /\ cli = "app"
    /\ loop = "starting"
    /\ agent_process_message(WelcomeMessage)
    /\ loop' = "awaiting"
    /\ agent_called' = TRUE
    /\ reported' = "response"
    /\ UNCHANGED <<cli, last_input, user_message, comprehensive_vars, check_vars,
                   component_vars>>

\* one iteration of the loop of NeoXBridgeApp.run
AppIteration ==
    /\ cli = "app"
    /\ loop = "awaiting"
    /\ Len(bridge_history) < 2 * (MaxCliTurns + 1)
    /\ \E ev \in InputEvents :
         \E line \in {get_user_input(ev)} :
           \E special \in {handle_special_commands(line)} :
             /\ last_input' = ev
             /\ IF line = << >>
                THEN /\ loop' = "awaiting"
                     /\ agent_called' = FALSE
                     /\ reported' = ""
                     /\ UNCHANGED bridge_vars
                ELSE IF special.is_special
                THEN /\ loop' = IF special.special_response = "quit" THEN "ended"
                                ELSE "awaiting"
                     /\ agent_called' = FALSE
                     /\ reported' = IF special.special_response = "quit"
                                    THEN "session_summary" ELSE "special"
                     /\ UNCHANGED bridge_vars
                ELSE /\ agent_process_message(line)
                     /\ loop' = "awaiting"
                     /\ agent_called' = TRUE
                     /\ reported' = "response"
                     /\ UNCHANGED user_message
    /\ UNCHANGED <<cli, comprehensive_vars, check_vars, component_vars>>

NextCli == MainIteration \/ AppWelcome \/ AppIteration

SpecCli == InitLoop /\ [][NextCli]_vars


\* ---- configuration: Config, NeoXBridgeApp.run, ComprehensiveSecurityChecker --

\* Config.validate_required_config without the optional items
validate_required_config(env) ==
    IF env.OPENAI_API_KEY = None \/ env.OPENAI_API_KEY = << >>
    THEN {"OPENAI_API_KEY"} ELSE {}

\* the configuration complete only with both keys
is_configured_needs_both(env) ==
    /\ validate_required_config(env) = {}
    /\ env.GO_PLUS_LABS_APP_KEY # None /\ env.GO_PLUS_LABS_APP_KEY # << >>

\* Config.is_configured
is_configured(env) == validate_required_config(env) = {}

\* the values of an environment variable: unset, empty, set
KeyValues == {None, << >>, <<"k", "e", "y">>}

\* the comprehensive agent not in use
InitComprehensiveIdle ==
    /\ NEO3_AVAILABLE \in BOOLEAN
    /\ wallet_manager = WalletInit
    /\ price_alerts = << >>
    /\ conversation_history = << >>
    /\ intent = NoIntent
    /\ response = NoResponse
    /\ security_call = NoSecurityCall
    /\ api_call = NoApiCall
    /\ sender_balance = NoBalance
    /\ user_input = None

\* main.py started, or the checker about to be used, under some environment
InitConfig ==
    /\ InitComprehensiveIdle
    /\ InitBridgeAgent
    /\ InitCheck
    /\ environ \in [OPENAI_API_KEY : KeyValues, GO_PLUS_LABS_APP_KEY : KeyValues,
                    GOPLUS_API_KEY : {None, <<"k", "e", "y">>}]
    /\ checker_results = NoCheckerResults
    /\ tool_call = NoToolCall
    /\ InitMonitor
    /\ InitWallet
    /\ cli \in {"app", "checker"}
    /\ cli = "app" => NEO3_AVAILABLE
    /\ loop = IF cli = "app" THEN "configuring" ELSE "ended"
    /\ last_input = NoInput
    /\ agent_called = FALSE
    /\ reported = ""

\* NeoXBridgeApp.run up to the welcome message: the configuration check and
\* initialize(); client_created: openai.AsyncOpenAI(...) does not raise
AppRun ==
    /\ cli = "app"
    /\ loop = "configuring"
    /\ \E client_created \in BOOLEAN :
         IF ~is_configured(environ)
         THEN loop' = "stopped" /\ reported' = "configuration_incomplete"
         ELSE IF (environ.OPENAI_API_KEY = None \/ environ.OPENAI_API_KEY = << >>)
                 \/ ~client_created
         THEN loop' = "stopped" /\ reported' = "initialize_failed"
         ELSE loop' = "starting" /\ reported' = "initialized"
    /\ UNCHANGED <<cli, last_input, agent_called, comprehensive_vars, bridge_vars, check_vars,
                   component_vars>>

\* the addresses given to the checker
CheckerAddresses == {AddrNiEt, AddrMalicious1, << >>}

\* a call of ComprehensiveSecurityChecker.check_address_security
CheckAddressSecurity ==
    /\ cli = "checker"
    /\ ~checker_results.made
    /\ \E address \in CheckerAddresses, reply \in GoPlusReplies,
          library \in {"valid", "invalid", "raises"} :
         checker_results' =
            checker_check_address_security(address, environ, reply, NEO3_AVAILABLE, library)
    /\ UNCHANGED <<environ, tool_call, monitor_vars, wallet_vars, comprehensive_vars,
                   bridge_vars, check_vars, cli_vars>>

NextConfig == AppRun \/ AppWelcome \/ AppIteration \/ CheckAddressSecurity

SpecConfig == InitConfig /\ [][NextConfig]_vars


\* ---- NeoXTools.send_transaction called directly ------------------------------

\* the arguments of a call: addresses known, unknown, flagged and malformed,
\* amounts in hundredths
ToolAddresses == {AddrNiEt, AddrNVBy, AddrMalicious1, AddrMalicious2, <<"0", "x", "1", "2", "3", "4">>, None}

ToolAmounts == {0 - 500, 0, 500, 1050, NaN}

ToolAssets == {<<"N", "E", "O">>, <<"g", "a", "s">>, <<"B", "T", "C">>, None}

InitTools ==
    /\ InitComprehensiveIdle
    /\ InitBridgeAgent
    /\ InitCheck
    /\ InitCli
    /\ environ = NoEnviron
    /\ checker_results = NoCheckerResults
    /\ InitMonitor
    /\ InitWallet
    /\ tool_call \in {[NoToolCall EXCEPT !.to_address = t, !.amount = a, !.asset = s] :
                        t \in ToolAddresses, a \in ToolAmounts, s \in ToolAssets}

\* await tools.send_transaction(to_address, amount, asset)
SendTransaction ==
    /\ ~tool_call.made
    /\ tool_call' = [tool_call EXCEPT
                        !.made = TRUE,
                        !.result = send_transaction(tool_call.to_address, tool_call.amount,
                                                    tool_call.asset)]
    /\ UNCHANGED <<environ, checker_results, monitor_vars, wallet_vars, comprehensive_vars,
                   bridge_vars, check_vars, cli_vars>>

NextTools == SendTransaction

SpecTools == InitTools /\ [][NextTools]_vars


\* ---- CryptoPriceMonitor used directly ---------------------------------------

MaxAlerts == 2

MaxMonitorCalls == 3

\* the clock stops here: one day and one minute
MaxClock == 86460

\* the prices CoinGecko replies and the targets of alerts, in hundredths
Prices == {100, 200}

\* what a request ends in
Fetches == Prices \cup {PriceNone}

InitPriceMonitor ==
    /\ InitComprehensiveIdle
    /\ InitBridgeAgent
    /\ InitCheck
    /\ InitCli
    /\ environ = NoEnviron
    /\ checker_results = NoCheckerResults
    /\ tool_call = NoToolCall
    /\ InitMonitor
    /\ InitWallet

unchanged_by_monitor ==
    UNCHANGED <<environ, checker_results, tool_call, wallet_vars, comprehensive_vars,
                bridge_vars, check_vars, cli_vars>>

\* the moments the clock is read at: within the first minute, and a day later
Moments == {0, 30, 60, MaxClock - 60, MaxClock - 30, MaxClock}

\* time passes
Tick ==
    /\ \E later \in Moments :
          /\ later > clock
          /\ clock' = later
    /\ UNCHANGED <<price_monitor, monitor_call>>
    /\ unchanged_by_monitor

\* await monitor.get_token_price(symbol)
GetTokenPrice ==
    /\ monitor_call.number < MaxMonitorCalls
    /\ \E symbol \in {<<"n", "e", "o">>}, fetched \in Fetches :
          LET got == get_token_price(price_monitor.price_cache, clock, symbol, fetched)
              cached_data == price_monitor.price_cache[cache_key(symbol)]
          IN  /\ price_monitor' = [price_monitor EXCEPT !.price_cache = got.price_cache]
              /\ monitor_call' =
                    [NoMonitorCall EXCEPT
                        !.op = "get_token_price", !.number = monitor_call.number + 1,
                        !.requested = got.requested, !.fetched = fetched,
                        !.age = IF cached_data.present THEN clock - cached_data.timestamp
                                ELSE NoTime,
                        !.price = got.price]
    /\ UNCHANGED clock
    /\ unchanged_by_monitor

\* monitor.create_price_alert(symbol, target_price, condition)
CreatePriceAlert ==
    /\ monitor_call.number < MaxMonitorCalls
    /\ Len(price_monitor.alerts) < MaxAlerts
    /\ \E symbol \in {<<"n", "e", "o">>}, target_price \in Prices, condition \in {<<"a", "b", "o", "v", "e">>, <<"B", "e", "l", "o", "w">>} :
          price_monitor' =
             [price_monitor EXCEPT
                 !.alerts = create_price_alert(@, price_monitor.next_id, clock, symbol,
                                               target_price, condition),
                 !.next_id = @ + 1]
    /\ monitor_call' = [NoMonitorCall EXCEPT !.op = "create_price_alert",
                                             !.number = monitor_call.number + 1]
    /\ UNCHANGED clock
    /\ unchanged_by_monitor

\* await monitor.check_alerts()
CheckAlerts ==
    /\ monitor_call.number < MaxMonitorCalls
    /\ \E fetched \in [1..MaxAlerts -> Fetches] :
          LET out == check_alerts(price_monitor.alerts, price_monitor.price_cache, clock,
                                  fetched)
          IN  /\ price_monitor' = [price_monitor EXCEPT !.alerts = out.alerts,
                                                        !.price_cache = out.price_cache]
              /\ monitor_call' =
                    [NoMonitorCall EXCEPT
                        !.op = "check_alerts", !.number = monitor_call.number + 1,
                        !.requested = out.requests > 0,
                        !.triggered_alerts = out.triggered_alerts, !.prices = out.prices]
    /\ UNCHANGED clock
    /\ unchanged_by_monitor

\* monitor.remove_alert(symbol, target_price)
RemoveAlert ==
    /\ monitor_call.number < MaxMonitorCalls
    /\ \E symbol \in {<<"n", "e", "o">>}, target_price \in Prices :
          LET out == remove_alert(price_monitor.alerts, symbol, target_price)
          IN  /\ price_monitor' = [price_monitor EXCEPT !.alerts = out.alerts]
              /\ monitor_call' = [NoMonitorCall EXCEPT !.op = "remove_alert",
                                                       !.number = monitor_call.number + 1,
                                                       !.removed = out.removed]
    /\ UNCHANGED clock
    /\ unchanged_by_monitor

NextPriceMonitor == Tick \/ GetTokenPrice \/ CreatePriceAlert \/ CheckAlerts \/ RemoveAlert

SpecPriceMonitor == InitPriceMonitor /\ [][NextPriceMonitor]_vars


\* ---- NeoWallet used directly ------------------------------------------------

MaxWalletCalls == 4

\* the keys given to set_private_key: none, empty, 64 hexadecimal characters,
\* 64 other characters, a WIF key, a hexadecimal key with its 0x
WalletKeys == {None, << >>, RawHexKey, NotHexKey, KeyWif, KeyHex}

InitNeoWallet ==
    /\ InitComprehensiveIdle
    /\ InitBridgeAgent
    /\ InitCheck
    /\ InitCli
    /\ environ = NoEnviron
    /\ checker_results = NoCheckerResults
    /\ tool_call = NoToolCall
    /\ InitMonitor
    /\ InitWallet

unchanged_by_wallet ==
    UNCHANGED <<environ, checker_results, tool_call, monitor_vars, comprehensive_vars,
                bridge_vars, check_vars, cli_vars>>

\* wallet.set_private_key(private_key, known_address)
SetPrivateKey ==
    /\ Len(wallet_call.log) < MaxWalletCalls
    /\ \E private_key \in WalletKeys, known_address \in {None, << >>, AddrNiEt},
          derivation \in {"neo3", "manual", "fallback"} :
          LET out == set_private_key(neo_wallet, private_key, known_address, derivation)
          IN  /\ neo_wallet' = out.wallet
              /\ wallet_call' =
                    [NoWalletCall EXCEPT
                        !.op = "set_private_key", !.returned = out.ok,
                        !.log = Append(wallet_call.log,
                                       [op |-> "set_private_key", returned |-> out.ok])]
    /\ unchanged_by_wallet

\* wallet.sign_transaction(transaction_data)
SignTransaction ==
    /\ Len(wallet_call.log) < MaxWalletCalls
    /\ LET out == sign_transaction(neo_wallet)
       IN  wallet_call' =
              [NoWalletCall EXCEPT
                  !.op = "sign_transaction", !.returned = out.success, !.error = out.error,
                  !.signer = out.signer,
                  !.log = Append(wallet_call.log,
                                 [op |-> "sign_transaction", returned |-> out.success])]
    /\ UNCHANGED neo_wallet
    /\ unchanged_by_wallet

\* wallet.clear_wallet()
ClearWallet ==
    /\ Len(wallet_call.log) < MaxWalletCalls
    /\ neo_wallet' = clear_wallet(neo_wallet)
    /\ wallet_call' =
          [NoWalletCall EXCEPT
              !.op = "clear_wallet",
              !.log = Append(wallet_call.log, [op |-> "clear_wallet", returned |-> FALSE])]
    /\ unchanged_by_wallet

NextNeoWallet == SetPrivateKey \/ SignTransaction \/ ClearWallet

SpecNeoWallet == InitNeoWallet /\ [][NextNeoWallet]_vars
\* ------------------------------------------------------------------------
\* Properties of the router (SpecRouter) and of the conversation (Spec)
\* ------------------------------------------------------------------------

\* the message process_message handled last
LastMessage == conversation_history[Len(conversation_history)].content

Processed == Len(conversation_history) > 0 /\ user_input = None

\* the keyword groups in the order parse_intent tests them; the last one is the
\* exact-match help group
GroupTriggers ==
    <<wallet_patterns, balance_patterns, security_patterns, blockchain_patterns,
      nft_patterns, price_patterns, send_patterns, tx_analysis_patterns, gov_patterns>>

GroupCategories ==
    <<{"wallet_operations"}, {"balance_check"}, {"security_analysis"}, {"blockchain_data"},
      {"nft_operations"}, {"price_monitoring"},
      {"send_transaction", "bulk_transaction", "transaction_help"},
      {"transaction_analysis"}, {"governance_info"}, {"help"}>>

GroupMatches(g, lower) ==
    IF g <= Len(GroupTriggers)
    THEN \E k \in 1..Len(GroupTriggers[g]) : Contains(lower, GroupTriggers[g][k])
    ELSE lower \in help_messages

MatchingGroups(lower) == {g \in 1..Len(GroupCategories) : GroupMatches(g, lower)}

\* C5: parse_intent returns a category of the first keyword group, in the
\* fixed order, that has a trigger in the lower-cased message, and "general"
\* when no group has one.
C5_FirstMatchingGroupWins ==
    Processed =>
        \A groups \in {MatchingGroups(str_lower(LastMessage))} :
            IF groups = {} THEN intent.type = "general"
            ELSE intent.type \in GroupCategories[Min(groups)]

\* C5 witness: a message with triggers of two groups was routed to the earlier one
C5_Witness ==
    /\ Processed
    /\ intent.type = "price_monitoring"
    /\ GroupMatches(9, str_lower(LastMessage))

WellFormedAddress(a) == Len(a) = 34 /\ a[1] = "N" /\ ClassRun(a, 2, 33, Alnum)

\* C6: `send n NEO to A` with a well-formed address A yields a
\* send_transaction intent with amount n, asset NEO and recipient A as written.
C6_SendExtractsRecipientAsWritten ==
    \A n \in {<<"5">>, <<"1", "0", ".", "5">>} : \A a \in {r \in SendRecipients : WellFormedAddress(r)} :
        (Processed /\ LastMessage = JoinWords(<<<<"s", "e", "n", "d">>, n, <<"N", "E", "O">>, <<"t", "o">>, a>>))
            => /\ intent.type = "send_transaction"
               /\ intent.amount = ParseFloat(n)
               /\ intent.asset = <<"N", "E", "O">>
               /\ intent.recipient = a

ReachesSendCategory(lower) ==
    /\ GroupMatches(7, lower)
    /\ \A g \in 1..6 : ~GroupMatches(g, lower)

HasBulkMarker(message) ==
    \/ Contains(str_lower(message), <<"b", "u", "l", "k">>)
    \/ Contains(str_lower(message), <<"m", "u", "l", "t", "i", "p", "l", "e">>)
    \/ Contains(message, <<",">>)

\* C7: a message that reaches the send category and holds "bulk", "multiple"
\* or a comma is a bulk_transaction, never a send_transaction.
C7_BulkBeforeSingleSend ==
    (Processed /\ HasBulkMarker(LastMessage) /\ ReachesSendCategory(str_lower(LastMessage)))
        => intent.type = "bulk_transaction"

\* C7 witness: a bulk message that also holds a valid single-recipient send
C7_Witness ==
    /\ Processed
    /\ intent.type = "bulk_transaction"
    /\ HasBulkMarker(LastMessage)
    /\ ReachesSendCategory(str_lower(LastMessage))
    /\ SendSearch(str_lower(LastMessage)).matched

\* C8: a message of the send category without a bulk marker that does not
\* match the strict pattern is answered by the transaction help, a success.
C8_LooseSendGetsTransactionHelp ==
    (/\ Processed
     /\ ReachesSendCategory(str_lower(LastMessage))
     /\ ~HasBulkMarker(LastMessage)
     /\ ~SendSearch(str_lower(LastMessage)).matched)
        => /\ intent.type = "transaction_help"
           /\ response.returned
           /\ response.success
           /\ response.action_type = "transaction_help"

\* C8 witness: `send 5 to <address>`, the asset missing, got the help
C8_Witness ==
    /\ Processed
    /\ LastMessage = JoinWords(<<<<"s", "e", "n", "d">>, <<"5">>, <<"t", "o">>, AddrNiEt>>)
    /\ response.action_type = "transaction_help"
    /\ response.success

HttpFailed(call) ==
    \/ call.reply1.http # "ok"
    \/ call.target_type = <<"u", "r", "l">> /\ call.reply2.http # "ok"

\* C2: when a request to the security API throws, times out or returns a
\* non-200 status, the SecurityResult is is_safe=false, "unknown", 0.0.
C2_SecurityCheckFailsClosed ==
    (security_call.made /\ HttpFailed(security_call))
        => /\ ~security_call.result.is_safe
           /\ security_call.result.risk_level = "unknown"
           /\ security_call.result.confidence = 0

\* C4: no transaction preview inviting confirmation is returned for a
\* recipient that failed the security check.
C4_UnsafeRecipientRefused ==
    ~(/\ security_call.made
      /\ ~security_call.result.is_safe
      /\ response.success
      /\ response.transaction_preview.present)

PreviewedSend == JoinWords(<<<<"s", "e", "n", "d", " ", "5", " ", "N", "E", "O", " ", "t", "o">>, AddrNiEt>>)

ConfirmMessages ==
    {JoinWords(<<<<"c", "o", "n", "f", "i", "r", "m", " ", "s", "e", "n", "d", " ", "5", " ", "N", "E", "O", " ", "t", "o">>, AddrNiEt>>),
     JoinWords(<<<<"c", "o", "n", "f", "i", "r", "m", " ", "s", "e", "n", "d", " ", "5", ".", "0", " ", "N", "E", "O", " ", "t", "o">>, str_lower(AddrNiEt)>>)}

\* C9: once the preview of `send 5 NEO to <recipient>` is shown, the message
\* `confirm send 5 NEO to <recipient>` leads to something else than a
\* transaction preview of the same send.
C9_ConfirmExecutesPreviewedSend ==
    [][(/\ Len(conversation_history) > 0
        /\ LastMessage = PreviewedSend
        /\ response.action_type = "transaction_preview"
        /\ user_input \in ConfirmMessages)
            => ~(/\ response'.action_type = "transaction_preview"
                 /\ response'.transaction_preview = response.transaction_preview)]_vars

\* ------------------------------------------------------------------------
\* Properties of NeoXBridgeAgent and NeoXTools (SpecBridge)
\* ------------------------------------------------------------------------

UserMessages == SelectSeq(bridge_history, LAMBDA e : e.role = "user")

IsConfirmMessage(message) == Contains(str_lower(message), <<"c", "o", "n", "f", "i", "r", "m">>)

\* tools.send_transaction returned an executed transaction
Executed ==
    /\ tool_result.tool = "send_transaction"
    /\ tool_result.success
    /\ tool_result.tx_hash # None
    /\ tool_result.status = "confirmed"

\* C1: tools.send_transaction returns an executed transaction only for a
\* confirm message that follows an earlier, distinct send request for the same
\* recipient; the send request itself executes nothing.
C1_SendIsTwoPhase ==
    Executed =>
        \E last \in {Len(UserMessages)} :
            /\ last >= 2
            /\ IsConfirmMessage(UserMessages[last].content)
            /\ \E i \in 1..(last - 1) :
                   /\ ~IsConfirmMessage(UserMessages[i].content)
                   /\ Contains(UserMessages[i].content, tool_result.recipient)

\* C3: when tools.send_transaction is called for a recipient that
\* check_address_security reports unsafe, the result is the security block
\* (success=false, security_blocked=true, tx_hash=null) and the response is
\* the security-alert template.
C3_UnsafeRecipientIsSecurityBlocked ==
    (/\ tool_result.tool = "send_transaction"
     /\ ~check_address_security(tool_result.recipient).is_safe)
        => /\ ~tool_result.success
           /\ tool_result.security_blocked
           /\ tool_result.tx_hash = None
           /\ bridge_response = "SECURITY ALERT - Transaction Blocked"

\* a send request was answered and neither a confirm nor a cancel came after it
SendAwaitsConfirmation ==
    /\ user_message = None
    /\ Len(UserMessages) > 0
    /\ intent_data.json = "dict"
    /\ intent_data.intent = "send_transaction"
    /\ tool_result.tool = "send_transaction"
    /\ ~IsConfirmMessage(UserMessages[Len(UserMessages)].content)
    /\ ~Contains(str_lower(UserMessages[Len(UserMessages)].content), <<"c", "a", "n", "c", "e", "l">>)

\* C10: context.pending_transaction is non-null exactly while an answered send
\* request awaits its confirmation.
C10_PendingTransactionTracksSend ==
    (context.pending_transaction # None) <=> SendAwaitsConfirmation

\* ------------------------------------------------------------------------
\* Responses, the blockchain data client and the risk level
\* ------------------------------------------------------------------------

\* C11: whatever the external calls do, process_message returns an
\* AgentResponse with its fields set, never None.
C11_ProcessMessageReturnsAgentResponse ==
    Processed => (response.returned /\ response.action_type # "")

\* C12: a NeoAPIClient operation never raises to its caller, whatever the
\* RPC exchange does.
C12_ApiClientNeverRaises ==
    api_call.made => ~api_call.raised



\* ---- properties of the security verdict (SpecVerdict) ----------------------

\* the order low < medium < high < critical of the risk levels
RiskRank(risk_level) ==
    CASE risk_level = "low" -> 1
      [] risk_level = "medium" -> 2
      [] risk_level = "high" -> 3
      [] risk_level = "critical" -> 4
      [] OTHER -> 0

AddressChecked ==
    /\ security_call.made
    /\ security_call.target_type = <<"a", "d", "d", "r", "e", "s", "s">>
    /\ security_call.reply1.http = "ok"
    /\ security_call.reply1.result = "dict"

\* C14: an address is declared unsafe exactly when one of the twelve
\* malicious-activity flags is "1" in the API result, and
\* ComprehensiveSecurityChecker gives the same verdict.
C14_AnyMaliciousFlagMakesUnsafe ==
    AddressChecked =>
        /\ security_call.result.is_safe <=> (security_call.reply1.ones \cap malicious_flags = {})
        /\ security_call.result.is_safe = _check_goplus_security(security_call.reply1).is_safe


\* ---- properties of the single send (Spec) -----------------------------------

\* the balances read cover the amount of the send and the network fee in GAS
BalanceCoversSend ==
    IF intent.asset = <<"G", "A", "S">>
    THEN sender_balance.GAS >= intent.amount + network_fee
    ELSE /\ intent.asset = <<"N", "E", "O">>
         /\ sender_balance.NEO >= intent.amount
         /\ sender_balance.GAS >= network_fee

\* C15: a send whose balance was read is previewed only when the balances
\* cover the amount plus the 0.5 GAS fee; otherwise it is refused as a
\* transaction error without a security check of the recipient.
C15_PreviewOnlyWhenBalanceCoversFee ==
    (intent.type = "send_transaction" /\ sender_balance.read /\ ~BalanceCoversSend) =>
        /\ ~response.transaction_preview.present
        /\ ~response.success
        /\ response.action_type = "transaction_error"
        /\ ~security_call.made


\* ---- properties of the session context (SpecBridge) -------------------------

\* the messages of the user NeoXBridgeAgent has processed, oldest first
BridgeUserMessages ==
    LET users == SelectSeq(bridge_history, LAMBDA e : e.role = "user")
    IN  [k \in 1..Len(users) |-> users[k].content]

\* 'N' and 33 alphanumerics between two word boundaries, starting at index i
AddressShapedAt(message, i) ==
    /\ i >= 1 /\ i + 33 <= Len(message)
    /\ message[i] = "N"
    /\ \A k \in (i + 1)..(i + 33) : message[k] \in Alnum
    /\ (i = 1 \/ message[i - 1] \notin WordChars)
    /\ (i + 33 = Len(message) \/ message[i + 34] \notin WordChars)

HasAddress(message) == \E i \in 1..Len(message) : AddressShapedAt(message, i)

\* the first address-shaped token of a message that has one
FirstAddress(message) ==
    LET i == CHOOSE i \in 1..Len(message) :
                /\ AddressShapedAt(message, i)
                /\ \A j \in 1..(i - 1) : ~AddressShapedAt(message, j)
    IN  SubSeq(message, i, i + 33)

\* C16: last_address is null while no processed message held an address, and
\* otherwise the first address-shaped token of the most recent processed
\* message that held one.
C16_LastAddressIsLastExtracted ==
    LET messages == BridgeUserMessages
        holders  == {k \in 1..Len(messages) : HasAddress(messages[k])}
    IN  IF holders = {} THEN context.last_address = None
        ELSE \E k \in holders :
                /\ \A j \in holders : j <= k
                /\ context.last_address = FirstAddress(messages[k])

\* a message with two addresses was processed, then one without an address
\* for which the LLM returned an address parameter of its own
C16_Witness ==
    /\ Len(BridgeUserMessages) = 2
    /\ BridgeUserMessages[1] = JoinWords(<<<<"I", "s">>, AddrNhGo, <<"o", "r">>, AddrNUVP, <<"s", "a", "f", "e", " ", "?">>>>)
    /\ ~HasAddress(BridgeUserMessages[2])
    /\ intent_data.parameters.address = JStr(AddrMalicious1)
    /\ context.last_address = AddrNhGo


\* ---- properties of the conversation history (Spec) --------------------------

\* C17: between turns the history of the comprehensive agent holds, for each
\* message processed, the user entry followed by an assistant entry: it
\* alternates user/assistant and has even length.
C17_HistoryGrowsByUserAndAssistant ==
    /\ Len(conversation_history) % 2 = 0
    /\ \A k \in 1..Len(conversation_history) :
          conversation_history[k].role = (IF k % 2 = 1 THEN "user" ELSE "assistant")


\* ---- properties of the conversation loops (SpecCli) -------------------------

\* the line the last input() returned, in lower case, or None
LastLineLower ==
    IF last_input.kind = "line" THEN str_lower(last_input.line) ELSE None

\* the loop has printed an error instead of a response
ErrorReported == reported \in {"system_error", "processing_error"}

\* C18, as stated: an error reported leaves the loop awaiting the next
\* message, and a loop has ended only on quit, exit or bye, on end of input or
\* on a keyboard interrupt.
C18_LoopEndsOnlyOnQuitExitBye ==
    /\ ErrorReported => loop = "awaiting"
    /\ (cli # "none" /\ loop = "ended") =>
          \/ last_input.kind \in {"eof", "interrupt"}
          \/ LastLineLower \in {<<"q", "u", "i", "t">>, <<"e", "x", "i", "t">>, <<"b", "y", "e">>}

\* C18, amended: an error reported leaves the loop awaiting the next message,
\* and a loop has ended only on quit, exit or bye, in NeoXBridgeApp also on
\* goodbye, on end of input or on a keyboard interrupt.
C18_LoopEndsOnlyOnQuitWords ==
    /\ ErrorReported => loop = "awaiting"
    /\ (cli # "none" /\ loop = "ended") =>
          \/ last_input.kind \in {"eof", "interrupt"}
          \/ LastLineLower \in {<<"q", "u", "i", "t">>, <<"e", "x", "i", "t">>, <<"b", "y", "e">>}
          \/ cli = "app" /\ LastLineLower = <<"g", "o", "o", "d", "b", "y", "e">>

\* process_message returned nothing to render, the loop reported the error
\* and awaits the next message
C18_Witness ==
    /\ cli = "main"
    /\ agent_called
    /\ ~response.returned
    /\ reported = "system_error"
    /\ loop = "awaiting"

\* C19: an iteration that reads help, status, examples, quit, exit or bye
\* does not call process_message and leaves the histories and the session
\* context of the agents unchanged.
C19_BareCommandsBypassAgent ==
    [][(/\ last_input'.kind = "line"
        /\ str_lower(last_input'.line)
              \in {<<"h", "e", "l", "p">>, <<"s", "t", "a", "t", "u", "s">>, <<"e", "x", "a", "m", "p", "l", "e", "s">>, <<"q", "u", "i", "t">>, <<"e", "x", "i", "t">>, <<"b", "y", "e">>})
       => /\ ~agent_called'
          /\ UNCHANGED <<conversation_history, bridge_history, context>>]_vars


\* ---- properties of the help reference (SpecRouter) --------------------------

\* the category under which the help reference lists a literal command
DocumentedCategory(command) ==
    CASE command \in {<<"w", "a", "l", "l", "e", "t", " ", "s", "t", "a", "t", "u", "s">>, <<"m", "y", " ", "a", "d", "d", "r", "e", "s", "s">>} -> "wallet_operations"
      [] command = <<"c", "h", "e", "c", "k", " ", "m", "y", " ", "b", "a", "l", "a", "n", "c", "e">> -> "balance_check"
      [] command = <<"m", "y", " ", "n", "f", "t", "s">> -> "nft_operations"
      [] command \in {<<"b", "l", "o", "c", "k", " ", "h", "e", "i", "g", "h", "t">>, <<"r", "e", "c", "e", "n", "t", " ", "b", "l", "o", "c", "k", "s">>, <<"a", "s", "s", "e", "t", " ", "c", "o", "u", "n", "t">>} -> "blockchain_data"
      [] command \in {<<"c", "h", "e", "c", "k", " ", "m", "y", " ", "a", "l", "e", "r", "t", "s">>, <<"n", "e", "o", " ", "p", "r", "i", "c", "e">>} -> "price_monitoring"
      [] command = <<"s", "e", "n", "d", " ", "h", "e", "l", "p">> -> "transaction_help"
      [] command \in {<<"c", "o", "m", "m", "i", "t", "t", "e", "e", " ", "i", "n", "f", "o">>, <<"c", "a", "n", "d", "i", "d", "a", "t", "e", " ", "c", "o", "u", "n", "t">>} -> "governance_info"
      [] command = <<"h", "e", "l", "p">> -> "help"
      [] OTHER -> ""

\* C20: a literal command of the help reference is routed to the category
\* that documents it.
C20_HelpCommandsReachTheirCategory ==
    (Processed /\ DocumentedCategory(LastMessage) # "")
        => intent.type = DocumentedCategory(LastMessage)


\* ---- properties of the transaction history (SpecRouter) ---------------------

\* C21: `transaction history`, `tx history` and `recent transactions` are
\* classified as transaction_analysis and answered by
\* handle_transaction_analysis.
C21_TransactionHistoryIsReachable ==
    (Processed /\ LastMessage \in {<<"t", "r", "a", "n", "s", "a", "c", "t", "i", "o", "n", " ", "h", "i", "s", "t", "o", "r", "y">>, <<"t", "x", " ", "h", "i", "s", "t", "o", "r", "y">>, <<"r", "e", "c", "e", "n", "t", " ", "t", "r", "a", "n", "s", "a", "c", "t", "i", "o", "n", "s">>})
        => /\ intent.type = "transaction_analysis"
           /\ response.action_type \in {"transaction_analysis", "transaction_error"}


\* ---- properties of the configuration (SpecConfig) ---------------------------

KeyAbsent(value) == value = None \/ value = << >>

HandlerAddress == StringOrNone(intent_data.parameters.address, context.last_address)

\* the last message was answered by the address-validation handler with a
\* validation result
AddressValidated ==
    /\ intent_data.json = "dict"
    /\ intent_data.intent = "validate_address"
    /\ HandlerAddress # None

\* C23: the formatter renders the success template iff the result is valid,
\* the partial template iff the format is valid and the address is not on
\* the network, and the invalid-format template otherwise; is_valid implies
\* format_valid and network_exists.
C23_ValidationTiers ==
    AddressValidated =>
        LET result == validate_address(HandlerAddress)
        IN  /\ bridge_response \in {"Address Validation Successful",
                                   "Address Format Valid but Not Found",
                                   "Invalid Address Format"}
            /\ (bridge_response = "Address Validation Successful") <=> result.is_valid
            /\ (bridge_response = "Address Format Valid but Not Found")
                  <=> (result.format_valid /\ ~result.network_exists)
            /\ (bridge_response = "Invalid Address Format") <=> ~result.format_valid
            /\ result.is_valid => (result.format_valid /\ result.network_exists)

\* a valid address was validated after a well-formed address unknown to the
\* network was
C23_Witness ==
    /\ AddressValidated
    /\ bridge_response = "Address Validation Successful"
    /\ \E k \in 1..Len(bridge_history) :
          bridge_history[k].content = "Address Format Valid but Not Found"


\* ---- properties of NeoXTools.send_transaction (SpecTools) -------------------

RecipientFormatPassed == validate_address(tool_call.to_address).format_valid

AmountPassed == tool_call.amount # NaN /\ tool_call.amount > 0

AssetPassed == tool_call.asset # None /\ str_upper(tool_call.asset) \in {<<"N", "E", "O">>, <<"G", "A", "S">>}

SecurityPassed == check_address_security(tool_call.to_address).is_safe

\* C24: send_transaction checks recipient format, amount > 0, asset in
\* {NEO, GAS} and recipient security in this order and stops at the first
\* that fails; it succeeds with a tx_hash only if all four passed and fails
\* with tx_hash null otherwise.
C24_SendChecksInOrder ==
    tool_call.made =>
        LET result == tool_call.result
        IN  /\ result.success <=>
                  (RecipientFormatPassed /\ AmountPassed /\ AssetPassed /\ SecurityPassed)
            /\ result.success => result.tx_hash # None
            /\ ~result.success => result.tx_hash = None
            /\ ~RecipientFormatPassed => result.error = "Invalid recipient address format"
            /\ (RecipientFormatPassed /\ ~AmountPassed) =>
                  result.error = "Amount must be positive"
            /\ (RecipientFormatPassed /\ AmountPassed /\ ~AssetPassed) =>
                  result.error \in {"Unsupported asset", "Transaction failed"}
            /\ (RecipientFormatPassed /\ AmountPassed /\ AssetPassed /\ ~SecurityPassed) =>
                  result.security_blocked
            /\ tool_call.to_address \in malicious_addresses => ~result.success

\* C25: get_token_price answers from the cache, without a request, only when
\* the entry was stored less than cache_expiry seconds ago; an entry that old
\* or older (older than a day included) is fetched again; and a request that
\* fails returns None, never the stale price.
C25_CacheServesOnlyFreshEntries ==
    monitor_call.op = "get_token_price" =>
        /\ ~monitor_call.requested =>
              monitor_call.age # NoTime /\ monitor_call.age < cache_expiry
        /\ (monitor_call.age # NoTime /\ monitor_call.age >= cache_expiry) =>
              monitor_call.requested
        /\ (monitor_call.requested /\ monitor_call.fetched = PriceNone) =>
              monitor_call.price = PriceNone

AlertIds(alerts) == {alerts[i].id : i \in 1..Len(alerts)}

\* the price meets the condition of the alert
MeetsCondition(alert, price) ==
    \/ alert.condition = <<"a", "b", "o", "v", "e">> /\ price >= alert.target_price
    \/ alert.condition = <<"b", "e", "l", "o", "w">> /\ price <= alert.target_price

\* one step of the monitor, as the claim C29 has it
C29_AlertStep ==
    LET before == price_monitor.alerts
        after == price_monitor'.alerts
        checked == monitor_call'.op = "check_alerts" /\ monitor_call'.number # monitor_call.number
        returned == IF checked THEN monitor_call'.triggered_alerts ELSE << >>
    IN  /\ \A i \in 1..Len(before) :
              ~before[i].active =>
                 /\ \A j \in 1..Len(after) : after[j].id = before[i].id => ~after[j].active
                 /\ before[i].id \notin AlertIds(returned)
        /\ \A k \in 1..Len(returned) :
              /\ \A l \in 1..Len(returned) : returned[l].id = returned[k].id => l = k
              /\ returned[k].id \notin AlertIds(get_active_alerts(after))
              /\ \E i \in 1..Len(before) : /\ before[i].id = returned[k].id
                                           /\ before[i].active
                                           /\ monitor_call'.prices[i] # PriceNone
                                           /\ MeetsCondition(before[i], monitor_call'.prices[i])
        /\ checked =>
              \A i \in 1..Len(before) :
                 (/\ before[i].active
                  /\ monitor_call'.prices[i] # PriceNone
                  /\ MeetsCondition(before[i], monitor_call'.prices[i]))
                 => before[i].id \in AlertIds(returned)
        /\ AlertIds(before) \ AlertIds(after) # {} => monitor_call'.op = "remove_alert"

\* C29: every alert satisfies active => triggered_at is null; check_alerts
\* returns an alert at most once, when the price first meets its condition
\* (>= target for above, <= target for below), and from then on the alert is
\* inactive and absent from get_active_alerts; alerts leave the list only
\* through remove_alert.
C29_AlertsTriggerOnce ==
    /\ [](\A i \in 1..Len(price_monitor.alerts) :
             price_monitor.alerts[i].active => price_monitor.alerts[i].triggered_at = NoTime)
    /\ [][C29_AlertStep]_vars

\* a check that returns nothing although the cached price still meets the
\* condition of an alert triggered before
C29_Witness ==
    /\ monitor_call.op = "check_alerts"
    /\ monitor_call.triggered_alerts = << >>
    /\ \E i \in 1..Len(price_monitor.alerts) :
          LET alert == price_monitor.alerts[i]
              cached_data == price_monitor.price_cache[cache_key(alert.symbol)]
          IN  /\ ~alert.active
              /\ alert.triggered_at # NoTime
              /\ cached_data.present
              /\ MeetsCondition(alert, cached_data.price)


\* ---- the address the handlers of NeoXBridgeAgent fall back on (SpecBridge) ---

\* the address of the most recent processed message that held one, or None
SessionAddress ==
    LET messages == BridgeUserMessages
        holders  == {k \in 1..Len(messages) : HasAddress(messages[k])}
    IN  IF holders = {} THEN None
        ELSE FirstAddress(messages[CHOOSE k \in holders : \A j \in holders : j <= k])

\* the last message was classified as intent t, with parameters that carry no address
NoAddressParameter(t) ==
    /\ intent_data.json = "dict"
    /\ intent_data.intent = t
    /\ ~intent_data.parameters_null
    /\ ~Truthy(intent_data.parameters.address)

\* C26: when the classified parameters carry no address, the validate,
\* balance and security handlers work on the address of the most recent
\* message of the session that held one (context last_address), and with no
\* such message they return their 'Please provide ...' prompt without calling
\* a tool; the send handler takes its recipient from the parameters only.
C26_HandlersFallBackOnLastAddress ==
    /\ NoAddressParameter("validate_address") =>
          bridge_response =
             IF SessionAddress = None THEN "Please provide a Neo address to validate"
             ELSE _format_address_validation_response(validate_address(SessionAddress))
    /\ NoAddressParameter("check_balance") =>
          IF SessionAddress = None
          THEN bridge_response = "Please provide a Neo address to check the balance"
          ELSE bridge_response \in {"Balance Information", "Balance Information (no tokens)",
                                    "Balance Check Failed"}
    /\ NoAddressParameter("security_check") =>
          bridge_response =
             IF SessionAddress = None THEN "Please provide an address to check for security"
             ELSE _format_security_response(check_address_security(SessionAddress))
    /\ (intent_data.json = "dict" /\ intent_data.intent = "send_transaction"
        /\ ~intent_data.parameters_null) =>
          /\ ~Truthy(intent_data.parameters.recipient) =>
                /\ bridge_response
                      = "To send tokens, please specify both recipient address and amount"
                /\ tool_result = NoToolResult
          /\ tool_result.tool # "none" =>
                tool_result.recipient = intent_data.parameters.recipient.str

\* a security check without an address parameter, for a message without an
\* address, answered for the address of the message before
C26_Witness ==
    /\ Len(BridgeUserMessages) = 2
    /\ HasAddress(BridgeUserMessages[1])
    /\ ~HasAddress(BridgeUserMessages[2])
    /\ NoAddressParameter("security_check")
    /\ bridge_response = _format_security_response(check_address_security(SessionAddress))


\* ---- properties of AdvancedNeoWalletManager.load_private_key (Spec) ----------

\* a step in which load_private_key returned False leaves the wallet as it was
C27_FailedLoadStep ==
    (response'.returned /\ response'.action_type = "wallet_error") =>
        wallet_manager' = wallet_manager

\* C27: a load_private_key that returns False leaves private_key,
\* wallet_address, account and is_loaded unchanged, so that whenever is_loaded
\* holds the stored wallet_address and account are the ones derived from the
\* stored private_key.
C27_FailedLoadLeavesWalletUnchanged ==
    /\ [][C27_FailedLoadStep]_vars
    /\ [](wallet_manager.is_loaded =>
             /\ wallet_manager.account = wallet_manager.private_key
             /\ wallet_manager.wallet_address = AccountAddress(wallet_manager.private_key))


\* ---- the router and the characters of an address (SpecRouter) ---------------

\* the well-formed addresses of the program: the keys of demo_balances
WellFormedAddresses == {a \in {AddrNVBy, AddrNiEt, AddrNhGo} : WellFormedAddress(a)}

\* the places of a message where a well-formed address stands as a word
AddressPlaces(message) ==
    {i \in 1..Len(message) :
        /\ i + 33 <= Len(message)
        /\ SubSeq(message, i, i + 33) \in WellFormedAddresses
        /\ (i = 1 \/ message[i - 1] = " ")
        /\ (i + 33 = Len(message) \/ message[i + 34] = " ")}

\* the message with the address at place i exchanged for another
WithAddress(message, i, address) ==
    SubSeq(message, 1, i - 1) \o address \o SubSeq(message, i + 34, Len(message))

\* C28: the intent type parse_intent chooses does not depend on the
\* characters of an embedded well-formed address: the message classified
\* and any message that differs from it only in the address get the same type.
C28_IntentTypeIgnoresAddress ==
    Processed =>
        \A i \in AddressPlaces(LastMessage), address \in WellFormedAddresses :
            parse_intent(WithAddress(LastMessage, i, address)).type = intent.type


\* ---- properties of NeoWallet (SpecNeoWallet) --------------------------------

\* one call of a NeoWallet method, as the claim C30 has it
C30_WalletStep ==
    LET called == Len(wallet_call'.log) > Len(wallet_call.log)
    IN  /\ (called /\ wallet_call'.op = "set_private_key" /\ ~wallet_call'.returned) =>
              neo_wallet' = neo_wallet
        /\ (called /\ wallet_call'.op = "sign_transaction") =>
              /\ wallet_call'.returned <=> (neo_wallet.private_key # None)
              /\ wallet_call.op = "clear_wallet" =>
                    /\ ~wallet_call'.returned
                    /\ wallet_call'.error = "Wallet not loaded with private key"

\* C30: private_key is null iff address is null; a set_private_key that
\* returns False changes neither field; sign_transaction returns success=true
\* iff the wallet is loaded, and after clear_wallet returns success=false with
\* the error "Wallet not loaded with private key".
C30_WalletFieldsMoveTogether ==
    /\ []((neo_wallet.private_key = None) <=> (neo_wallet.address = None))
    /\ []((wallet_call.op = "sign_transaction" /\ neo_wallet.private_key = None) =>
             /\ ~wallet_call.returned
             /\ wallet_call.error = "Wallet not loaded with private key")
    /\ [][C30_WalletStep]_vars

\* a wallet was loaded, a second set_private_key was refused, the wallet
\* was cleared, and sign_transaction then failed
C30_Witness ==
    /\ Len(wallet_call.log) = 4
    /\ wallet_call.log[1] = [op |-> "set_private_key", returned |-> TRUE]
    /\ wallet_call.log[2] = [op |-> "set_private_key", returned |-> FALSE]
    /\ wallet_call.log[3].op = "clear_wallet"
    /\ wallet_call.op = "sign_transaction"
    /\ ~wallet_call.returned
    /\ wallet_call.error = "Wallet not loaded with private key"
====
